---------------------------- MODULE Spec2Model ----------------------------
(***************************************************************************)
(* A model of dotmil-recon: the asset classifier (dedupe, tag, filter),    *)
(* the liveness/probing pipeline (Processor._check_live), the HTTP prober  *)
(* (probe_url, probe_domain) and the DNS resolver (resolve_ip).            *)
(*                                                                         *)
(* Python strings are modelled as sequences of one-character strings, so   *)
(* that splitting, substring search, prefix tests and truncation are       *)
(* computed the way the code computes them.                                *)
(***************************************************************************)
EXTENDS Integers, Sequences, FiniteSets, TLC

(***************************************************************************)
(* Bounds of the model.                                                    *)
(***************************************************************************)
\* longest input list of assets drawn freely from the small domain universes
MaxAssets == 2

\* longest list of name_value entries in an upstream answer
MaxEntries == 2

\* most components in a generated domain name (classifier inputs)
MaxParts == 2

(***************************************************************************)
(* Python values.                                                          *)
(***************************************************************************)
\* Python's None, for the Optional[str] / Optional[bool] fields
None == "None"

Min(a, b) == IF a <= b THEN a ELSE b

\* s[:n]
Take(s, n) == SubSeq(s, 1, Min(n, Len(s)))

\* s[n:]
Drop(s, n) == SubSeq(s, n + 1, Len(s))

\* s.startswith(p)
StartsWith(s, p) == Len(p) <= Len(s) /\ SubSeq(s, 1, Len(p)) = p

\* sub occurs in s at (1-based) position k
OccursAt(s, sub, k) ==
    /\ k >= 1
    /\ k + Len(sub) - 1 <= Len(s)
    /\ SubSeq(s, k, k + Len(sub) - 1) = sub

\* Python's `sub in s` on strings
Contains(s, sub) == \E k \in 1..(Len(s) + 1) : OccursAt(s, sub, k)

\* Python's `x in list`
InList(x, list) == \E k \in 1..Len(list) : list[k] = x

\* s.replace(old, new) for one-character old and new
ReplaceChar(s, old, new) == [k \in 1..Len(s) |-> IF s[k] = old THEN new ELSE s[k]]

\* s.split(sep) for a one-character sep: the pieces between separators,
\* empty pieces kept ("a..b".split(".") = ["a", "", "b"])
RECURSIVE SplitFrom(_, _, _, _)
SplitFrom(s, sep, k, cur) ==
    IF k > Len(s) THEN <<cur>>
    ELSE IF s[k] = sep THEN <<cur>> \o SplitFrom(s, sep, k + 1, <<>>)
    ELSE SplitFrom(s, sep, k + 1, Append(cur, s[k]))

Split(s, sep) == SplitFrom(s, sep, 1, <<>>)

\* sep.join(parts) for a sequence of strings
RECURSIVE Join(_, _)
Join(parts, sep) ==
    IF Len(parts) = 0 THEN <<>>
    ELSE IF Len(parts) = 1 THEN parts[1]
    ELSE parts[1] \o sep \o Join(Tail(parts), sep)

UpperLetters == <<"A","B","C","D","E","F","G","H","I","J","K","L","M","N","O","P","Q","R","S","T","U","V","W","X","Y","Z">>

LowerLetters == <<"a","b","c","d","e","f","g","h","i","j","k","l","m","n","o","p","q","r","s","t","u","v","w","x","y","z">>

\* c.lower() for one character
LowerChar(c) ==
    IF \E k \in 1..Len(UpperLetters) : UpperLetters[k] = c
    THEN LowerLetters[CHOOSE k \in 1..Len(UpperLetters) : UpperLetters[k] = c]
    ELSE c

Lower(s) == [k \in 1..Len(s) |-> LowerChar(s[k])]

(***************************************************************************)
(* core/processor.py: the pattern tables.                                  *)
(***************************************************************************)
DEFAULT_PATTERNS ==
    << <<"l","e","g","a","c","y">>,
       <<"o","l","d">>,
       <<"d","e","v">>,
       <<"t","e","s","t">>,
       <<"s","t","a","g","i","n","g">>,
       <<"p","o","r","t","a","l">>,
       <<"w","e","b","m","a","i","l">>,
       <<"o","w","a">>,
       <<"v","p","n">>,
       <<"r","e","m","o","t","e">>,
       <<"a","d","m","i","n">>,
       <<"t","r","a","i","n","i","n","g">> >>

FALSE_POSITIVES ==
    { <<"d","e","v","e","n","s">>,
      <<"m","e","d","e","v","a","c">>,
      <<"p","e","o","a","v","n">> }

\* a faulty variant of _matches_pattern: substring containment instead of component equality
MatchesPatternSubstring(domain, pattern) == Contains(domain, pattern)

\* _matches_pattern(domain, pattern): pattern in domain.replace("-", ".").split(".")
_matches_pattern(domain, pattern) ==
    LET parts == Split(ReplaceChar(domain, "-", "."), ".")
    IN  InList(pattern, parts)

\* _is_false_positive(domain): some false-positive string is a substring
_is_false_positive(domain) ==
    \E fp \in FALSE_POSITIVES : Contains(domain, fp)

(***************************************************************************)
(* core/models.py: Asset and HttpProbeResult.                              *)
(***************************************************************************)
\* an Optional[...] field other than None is modelled as a one-element
\* sequence holding the value, and None as the empty sequence
Absent == <<>>

Some(v) == <<v>>

\* an Asset field holding no HttpProbeResult (Optional[HttpProbeResult] = None)
NoProbe ==
    [present |-> FALSE, url |-> <<>>, status_code |-> 0,
     final_url |-> Absent, headers |-> <<>>, server |-> Absent,
     technologies |-> <<>>, title |-> Absent, content_length |-> Absent,
     tls |-> FALSE, error |-> Absent]

\* Asset(domain=..., source=...) with every optional field at its default
\* (discovered_at, a clock reading, and the fields nothing sets are left
\* out); live is None, "True" or "False"
Asset(domain, source) ==
    [domain |-> domain, source |-> source, tags |-> <<>>, ip |-> Absent,
     live |-> None, http |-> NoProbe, https |-> NoProbe]

(***************************************************************************)
(* Python's re.search with re.IGNORECASE, for the regular expressions the  *)
(* prober uses.  A regular expression is a sequence of elements:           *)
(*   Lit(s)        the literal text s                                      *)
(*   Opt(s)        s?   (greedy)                                           *)
(*   Rep(S, n)     [S]* for n = 0, [S]+ for n = 1   (greedy)               *)
(*   RepNot(S, n)  [^S]* or [^S]+                   (greedy)               *)
(*   GroupOpen, GroupClose   the parentheses of the one capture group      *)
(* The matcher backtracks in Python's order: leftmost start, longest       *)
(* repetition first.                                                       *)
(***************************************************************************)
Lit(s) == [t |-> "lit", s |-> s]

Opt(s) == [t |-> "opt", s |-> s]

Rep(S, n) == [t |-> "rep", neg |-> FALSE, set |-> S, min |-> n]

RepNot(S, n) == [t |-> "rep", neg |-> TRUE, set |-> S, min |-> n]

GroupOpen == [t |-> "open"]

GroupClose == [t |-> "close"]

\* \d
Digits == {"0", "1", "2", "3", "4", "5", "6", "7", "8", "9"}

\* [\d.]
DigitsDot == Digits \cup {"."}

\* what . does not match
Newline == {"\n"}

\* the literal lit stands in text at pos, ignoring case
LitAt(text, lit, pos) ==
    /\ pos + Len(lit) - 1 <= Len(text)
    /\ \A k \in 1..Len(lit) : LowerChar(text[pos + k - 1]) = LowerChar(lit[k])

\* character c is in the class of the repetition e
InClass(c, e) == IF e.neg THEN c \notin e.set ELSE c \in e.set

\* the length of the longest run of characters of e's class from pos
RECURSIVE RunLen(_, _, _)
RunLen(text, pos, e) ==
    IF pos <= Len(text) /\ InClass(text[pos], e)
    THEN 1 + RunLen(text, pos + 1, e)
    ELSE 0

\* the first way (in backtracking order) to match re[j..] at pos: a
\* one-element sequence [end, open, close], or <<>> when there is none
RECURSIVE MatchHere(_, _, _, _, _)
RECURSIVE TryRep(_, _, _, _, _, _)
MatchHere(re, j, text, pos, cap) ==
    IF j > Len(re)
    THEN <<[end |-> pos, open |-> cap[1], close |-> cap[2]]>>
    ELSE CASE re[j].t = "lit" ->
                IF LitAt(text, re[j].s, pos)
                THEN MatchHere(re, j + 1, text, pos + Len(re[j].s), cap)
                ELSE <<>>
           [] re[j].t = "opt" ->
                LET taken == IF LitAt(text, re[j].s, pos)
                             THEN MatchHere(re, j + 1, text, pos + Len(re[j].s), cap)
                             ELSE <<>>
                IN  IF taken # <<>> THEN taken
                    ELSE MatchHere(re, j + 1, text, pos, cap)
           [] re[j].t = "rep" ->
                TryRep(re, j, text, pos, RunLen(text, pos, re[j]), cap)
           [] re[j].t = "open" ->
                MatchHere(re, j + 1, text, pos, <<pos, cap[2]>>)
           [] re[j].t = "close" ->
                MatchHere(re, j + 1, text, pos, <<cap[1], pos>>)

TryRep(re, j, text, pos, n, cap) ==
    IF n < re[j].min THEN <<>>
    ELSE LET rest == MatchHere(re, j + 1, text, pos + n, cap)
         IN  IF rest # <<>> THEN rest
             ELSE TryRep(re, j, text, pos, n - 1, cap)

HasGroup(re) == \E j \in 1..Len(re) : re[j].t = "open"

\* re.search(re, text, re.IGNORECASE): whether it matched, and match.groups()
ReSearch(re, text) ==
    LET starts == {k \in 1..(Len(text) + 1) : MatchHere(re, 1, text, k, <<0, 0>>) # <<>>}
    IN  IF starts = {} THEN [matched |-> FALSE, groups |-> <<>>]
        ELSE LET k == CHOOSE x \in starts : \A y \in starts : x <= y
                 m == MatchHere(re, 1, text, k, <<0, 0>>)[1]
             IN  [matched |-> TRUE,
                  groups |-> IF HasGroup(re)
                             THEN <<SubSeq(text, m.open, m.close - 1)>>
                             ELSE <<>>]

(***************************************************************************)
(* More of Python's str and sorted().                                      *)
(***************************************************************************)
\* s.replace(old, new): every non-overlapping occurrence, left to right
RECURSIVE ReplaceFrom(_, _, _, _)
ReplaceFrom(s, old, new, k) ==
    IF k > Len(s) THEN <<>>
    ELSE IF OccursAt(s, old, k) THEN new \o ReplaceFrom(s, old, new, k + Len(old))
    ELSE <<s[k]>> \o ReplaceFrom(s, old, new, k + 1)

Replace(s, old, new) == ReplaceFrom(s, old, new, 1)

\* template.format(arg) for a template whose only field is {0}
Format(template, arg) == Replace(template, <<"{","0","}">>, arg)

Whitespace == {" ", "\t", "\n", "\r"}

\* s.strip()
RECURSIVE LStrip(_)
LStrip(s) == IF Len(s) > 0 /\ s[1] \in Whitespace THEN LStrip(Tail(s)) ELSE s

RECURSIVE RStrip(_)
RStrip(s) ==
    IF Len(s) > 0 /\ s[Len(s)] \in Whitespace THEN RStrip(SubSeq(s, 1, Len(s) - 1)) ELSE s

Strip(s) == RStrip(LStrip(s))

\* the characters of technology labels, in code-point order
AsciiOrder ==
    <<" ","#","$","%","&","(",")","*","+",",","-",".","/","0","1","2","3","4","5","6","7","8","9",":",";","<","=",">","?","@","A","B","C","D","E","F","G","H","I","J","K","L","M","N","O","P","Q","R","S","T","U","V","W","X","Y","Z","[","]","^","_","a","b","c","d","e","f","g","h","i","j","k","l","m","n","o","p","q","r","s","t","u","v","w","x","y","z","{","|","}","~">>

CharRank(c) == CHOOSE k \in 1..Len(AsciiOrder) : AsciiOrder[k] = c

\* a < b for Python strings
RECURSIVE StrLess(_, _)
StrLess(a, b) ==
    IF Len(b) = 0 THEN FALSE
    ELSE IF Len(a) = 0 THEN TRUE
    ELSE IF a[1] = b[1] THEN StrLess(Tail(a), Tail(b))
    ELSE CharRank(a[1]) < CharRank(b[1])

\* sorted(S) for a set of strings
RECURSIVE Sorted(_)
Sorted(S) ==
    IF S = {} THEN <<>>
    ELSE LET least == CHOOSE x \in S : \A y \in S : y = x \/ StrLess(x, y)
         IN  <<least>> \o Sorted(S \ {least})

\* dict.get(key, default), a dict being a function on its keys
Get(dict, key, default) == IF key \in DOMAIN dict THEN dict[key] ELSE default

(***************************************************************************)
(* core/prober.py: the fingerprint tables.                                 *)
(***************************************************************************)
\* (pattern, tech name)
Fp(re, name) == [re |-> re, name |-> name]

HEADER_FINGERPRINTS ==
    << [header |-> <<"s","e","r","v","e","r">>, patterns |-> <<
            Fp(<<Lit(<<"a","p","a","c","h","e">>)>>, <<"A","p","a","c","h","e">>),
            Fp(<<Lit(<<"n","g","i","n","x">>)>>, <<"N","g","i","n","x">>),
            Fp(<<Lit(<<"m","i","c","r","o","s","o","f","t","-","i","i","s","/">>), GroupOpen, Rep(Digits, 1), Opt(<<".">>),
                 Rep(Digits, 0), GroupClose>>, <<"I","I","S","/","{","0","}">>),
            Fp(<<Lit(<<"c","l","o","u","d","f","l","a","r","e">>)>>, <<"C","l","o","u","d","f","l","a","r","e">>),
            Fp(<<Lit(<<"a","k","a","m","a","i">>)>>, <<"A","k","a","m","a","i">>),
            Fp(<<Lit(<<"t","o","m","c","a","t">>)>>, <<"A","p","a","c","h","e"," ","T","o","m","c","a","t">>),
            Fp(<<Lit(<<"j","e","t","t","y">>)>>, <<"J","e","t","t","y">>),
            Fp(<<Lit(<<"l","i","g","h","t","t","p","d">>)>>, <<"L","i","g","h","t","t","p","d">>),
            Fp(<<Lit(<<"o","p","e","n","r","e","s","t","y">>)>>, <<"O","p","e","n","R","e","s","t","y">>),
            Fp(<<Lit(<<"g","u","n","i","c","o","r","n">>)>>, <<"G","u","n","i","c","o","r","n">>),
            Fp(<<Lit(<<"w","e","r","k","z","e","u","g">>)>>, <<"W","e","r","k","z","e","u","g">>) >>],
       [header |-> <<"x","-","p","o","w","e","r","e","d","-","b","y">>, patterns |-> <<
            Fp(<<Lit(<<"p","h","p">>), Opt(<<"/">>), GroupOpen, Rep(DigitsDot, 0), GroupClose>>,
               <<"P","H","P","/","{","0","}">>),
            Fp(<<Lit(<<"a","s","p">>), Opt(<<".">>), Lit(<<"n","e","t">>)>>, <<"A","S","P",".","N","E","T">>),
            Fp(<<Lit(<<"e","x","p","r","e","s","s">>)>>, <<"E","x","p","r","e","s","s",".","j","s">>),
            Fp(<<Lit(<<"s","e","r","v","l","e","t">>)>>, <<"J","a","v","a"," ","S","e","r","v","l","e","t">>),
            Fp(<<Lit(<<"j","s","p">>)>>, <<"J","S","P">>),
            Fp(<<Lit(<<"c","o","l","d","f","u","s","i","o","n">>)>>, <<"C","o","l","d","F","u","s","i","o","n">>),
            Fp(<<Lit(<<"p","e","r","l">>)>>, <<"P","e","r","l">>),
            Fp(<<Lit(<<"p","y","t","h","o","n">>)>>, <<"P","y","t","h","o","n">>),
            Fp(<<Lit(<<"r","u","b","y">>)>>, <<"R","u","b","y">>),
            Fp(<<Lit(<<"n","e","x","t",".","j","s">>)>>, <<"N","e","x","t",".","j","s">>) >>],
       [header |-> <<"x","-","a","s","p","n","e","t","-","v","e","r","s","i","o","n">>, patterns |-> <<
            Fp(<<GroupOpen, Rep(DigitsDot, 1), GroupClose>>, <<"A","S","P",".","N","E","T","/","{","0","}">>) >>],
       [header |-> <<"x","-","a","s","p","n","e","t","m","v","c","-","v","e","r","s","i","o","n">>, patterns |-> <<
            Fp(<<GroupOpen, Rep(DigitsDot, 1), GroupClose>>, <<"A","S","P",".","N","E","T"," ","M","V","C","/","{","0","}">>) >>],
       [header |-> <<"x","-","g","e","n","e","r","a","t","o","r">>, patterns |-> <<
            Fp(<<Lit(<<"d","r","u","p","a","l">>)>>, <<"D","r","u","p","a","l">>),
            Fp(<<Lit(<<"w","o","r","d","p","r","e","s","s">>)>>, <<"W","o","r","d","P","r","e","s","s">>),
            Fp(<<Lit(<<"j","o","o","m","l","a">>)>>, <<"J","o","o","m","l","a">>) >>],
       [header |-> <<"x","-","d","r","u","p","a","l","-","c","a","c","h","e">>, patterns |-> <<
            Fp(<<RepNot(Newline, 0)>>, <<"D","r","u","p","a","l">>) >>],
       [header |-> <<"x","-","v","a","r","n","i","s","h">>, patterns |-> <<
            Fp(<<RepNot(Newline, 0)>>, <<"V","a","r","n","i","s","h">>) >>],
       [header |-> <<"x","-","c","a","c","h","e">>, patterns |-> <<
            Fp(<<RepNot(Newline, 0)>>, <<"C","D","N","/","C","a","c","h","e">>) >>],
       [header |-> <<"v","i","a">>, patterns |-> <<
            Fp(<<Lit(<<"v","a","r","n","i","s","h">>)>>, <<"V","a","r","n","i","s","h">>),
            Fp(<<Lit(<<"c","l","o","u","d","f","r","o","n","t">>)>>, <<"C","l","o","u","d","F","r","o","n","t">>),
            Fp(<<Lit(<<"s","q","u","i","d">>)>>, <<"S","q","u","i","d">>) >>] >>

BODY_FINGERPRINTS ==
    << Fp(<<Lit(<<"<","m","e","t","a">>), RepNot({">"}, 1), Lit(<<"g","e","n","e","r","a","t","o","r">>), RepNot({">"}, 1),
            Lit(<<"w","o","r","d","p","r","e","s","s">>)>>, <<"W","o","r","d","P","r","e","s","s">>),
       Fp(<<Lit(<<"<","m","e","t","a">>), RepNot({">"}, 1), Lit(<<"g","e","n","e","r","a","t","o","r">>), RepNot({">"}, 1),
            Lit(<<"d","r","u","p","a","l">>)>>, <<"D","r","u","p","a","l">>),
       Fp(<<Lit(<<"<","m","e","t","a">>), RepNot({">"}, 1), Lit(<<"g","e","n","e","r","a","t","o","r">>), RepNot({">"}, 1),
            Lit(<<"j","o","o","m","l","a">>)>>, <<"J","o","o","m","l","a">>),
       Fp(<<Lit(<<"w","p","-","c","o","n","t","e","n","t","/">>)>>, <<"W","o","r","d","P","r","e","s","s">>),
       Fp(<<Lit(<<"s","i","t","e","s","/","d","e","f","a","u","l","t","/","f","i","l","e","s">>)>>, <<"D","r","u","p","a","l">>),
       Fp(<<Lit(<<"S","h","a","r","e","P","o","i","n","t">>)>>, <<"S","h","a","r","e","P","o","i","n","t">>),
       Fp(<<Lit(<<"/","_","l","a","y","o","u","t","s","/">>)>>, <<"S","h","a","r","e","P","o","i","n","t">>),
       Fp(<<Lit(<<"C","o","n","f","l","u","e","n","c","e">>)>>, <<"C","o","n","f","l","u","e","n","c","e">>),
       Fp(<<Lit(<<"J","S","E","S","S","I","O","N","I","D">>)>>, <<"J","a","v","a">>),
       Fp(<<Lit(<<"_","_","V","I","E","W","S","T","A","T","E">>)>>, <<"A","S","P",".","N","E","T">>),
       Fp(<<Lit(<<"c","s","r","f","t","o","k","e","n">>), RepNot(Newline, 0), Lit(<<"d","j","a","n","g","o">>)>>, <<"D","j","a","n","g","o">>),
       Fp(<<Lit(<<"l","a","r","a","v","e","l","_","s","e","s","s","i","o","n">>)>>, <<"L","a","r","a","v","e","l">>),
       Fp(<<Lit(<<"c","i","_","s","e","s","s","i","o","n">>)>>, <<"C","o","d","e","I","g","n","i","t","e","r">>) >>

INTERESTING_HEADERS ==
    { <<"s","e","r","v","e","r">>, <<"x","-","p","o","w","e","r","e","d","-","b","y">>, <<"x","-","a","s","p","n","e","t","-","v","e","r","s","i","o","n">>, <<"x","-","a","s","p","n","e","t","m","v","c","-","v","e","r","s","i","o","n">>,
      <<"x","-","g","e","n","e","r","a","t","o","r">>, <<"x","-","d","r","u","p","a","l","-","c","a","c","h","e">>, <<"x","-","v","a","r","n","i","s","h">>, <<"x","-","c","a","c","h","e">>, <<"v","i","a">>,
      <<"x","-","f","r","a","m","e","-","o","p","t","i","o","n","s">>, <<"x","-","x","s","s","-","p","r","o","t","e","c","t","i","o","n">>, <<"x","-","c","o","n","t","e","n","t","-","t","y","p","e","-","o","p","t","i","o","n","s">>,
      <<"c","o","n","t","e","n","t","-","s","e","c","u","r","i","t","y","-","p","o","l","i","c","y">>, <<"s","t","r","i","c","t","-","t","r","a","n","s","p","o","r","t","-","s","e","c","u","r","i","t","y">>,
      <<"w","w","w","-","a","u","t","h","e","n","t","i","c","a","t","e">>, <<"s","e","t","-","c","o","o","k","i","e">> }

\* the most characters of a body read for fingerprinting
BodyReadLimit == 100000

\* the most characters of the body the body fingerprints look at
BodySampleLimit == 50000

\* the most characters kept of a page title
TitleLimit == 200

\* the most characters of an exception's text kept in an error
ErrorDetailLimit == 100

\* <title[^>]*>([^<]+)</title>
TitleRe ==
    <<Lit(<<"<","t","i","t","l","e">>), RepNot({">"}, 0), Lit(<<">">>), GroupOpen, RepNot({"<"}, 1),
      GroupClose, Lit(<<"<","/","t","i","t","l","e",">">>)>>

\* _extract_title(body)
_extract_title(body) ==
    LET match == ReSearch(TitleRe, body)
    IN  IF match.matched THEN Some(Take(Strip(match.groups[1]), TitleLimit))
        ELSE Absent

\* the label one matching header fingerprint adds: the version capture
\* substituted, or the placeholder dropped when the pattern has no group
TechLabel(fp, match) ==
    IF Contains(fp.name, <<"{","0","}">>) /\ match.groups # <<>>
    THEN Format(fp.name, match.groups[1])
    ELSE IF Contains(fp.name, <<"{","0","}">>)
    THEN Replace(fp.name, <<"/","{","0","}">>, <<>>)
    ELSE fp.name

\* the labels of the header fingerprints of one header
HeaderTechs(entry, headers) ==
    LET header_value == Lower(Get(headers, entry.header, <<>>))
    IN  IF header_value = <<>> THEN {}
        ELSE {TechLabel(entry.patterns[k], ReSearch(entry.patterns[k].re, header_value)) :
                k \in {n \in 1..Len(entry.patterns) :
                         ReSearch(entry.patterns[n].re, header_value).matched}}

\* the labels of the cookie names
CookieTechs(headers) ==
    LET cookies == Lower(Get(headers, <<"s","e","t","-","c","o","o","k","i","e">>, <<>>))
    IN  (IF Contains(cookies, <<"p","h","p","s","e","s","s","i","d">>) THEN {<<"P","H","P">>} ELSE {})
          \cup (IF Contains(cookies, <<"j","s","e","s","s","i","o","n","i","d">>) THEN {<<"J","a","v","a">>} ELSE {})
          \cup (IF Contains(cookies, <<"a","s","p",".","n","e","t">>) \/ Contains(cookies, <<"a","s","p","x","a","u","t","h">>)
                THEN {<<"A","S","P",".","N","E","T">>} ELSE {})
          \cup (IF Contains(cookies, <<"l","a","r","a","v","e","l">>) THEN {<<"L","a","r","a","v","e","l">>} ELSE {})

\* the labels of the body fingerprints
BodyTechs(body) ==
    LET body_sample == Lower(Take(body, BodySampleLimit))
    IN  {BODY_FINGERPRINTS[k].name :
           k \in {n \in 1..Len(BODY_FINGERPRINTS) :
                    ReSearch(BODY_FINGERPRINTS[n].re, body_sample).matched}}

\* _detect_technologies(headers, body)
_detect_technologies(headers, body) ==
    Sorted(UNION {HeaderTechs(HEADER_FINGERPRINTS[k], headers) :
                    k \in 1..Len(HEADER_FINGERPRINTS)}
             \cup CookieTechs(headers)
             \cup BodyTechs(body))

\* _filter_headers(headers)
_filter_headers(headers) ==
    [k \in {n \in DOMAIN headers : Lower(n) \in INTERESTING_HEADERS} |-> headers[k]]

(***************************************************************************)
(* core/prober.py: probe_url.                                              *)
(***************************************************************************)
\* HttpProbeResult(url=..., status_code=..., ...), the other fields at their
\* defaults (duration_ms, a wall-clock reading, is left out)
HttpProbeResult(url, status_code, tls, error) ==
    [present |-> TRUE, url |-> url, status_code |-> status_code,
     final_url |-> Absent, headers |-> <<>>, server |-> Absent,
     technologies |-> <<>>, title |-> Absent, content_length |-> Absent,
     tls |-> tls, error |-> error]

\* the exception classes that reach probe_url and resolve_ip, each with its
\* direct base classes (requests.exceptions, socket and the built-ins)
ExcBases(cls) ==
    CASE cls = "ReadTimeout" -> {"Timeout"}
      [] cls = "ConnectTimeout" -> {"ConnectionError", "Timeout"}
      [] cls = "SSLError" -> {"ConnectionError"}
      [] cls = "ProxyError" -> {"ConnectionError"}
      [] cls = "Timeout" -> {"RequestException"}
      [] cls = "ConnectionError" -> {"RequestException"}
      [] cls = "TooManyRedirects" -> {"RequestException"}
      [] cls = "InvalidURL" -> {"RequestException", "ValueError"}
      [] cls = "HTTPError" -> {"RequestException"}
      [] cls = "RequestException" -> {"OSError"}
      [] cls = "RuntimeError" -> {"Exception"}
      [] cls = "gaierror" -> {"OSError"}
      [] cls = "OSError" -> {"Exception"}
      [] cls = "UnicodeError" -> {"ValueError"}
      [] cls = "ValueError" -> {"Exception"}
      [] OTHER -> {}

\* isinstance(e, base) for an exception e of class cls
RECURSIVE IsInstance(_, _)
IsInstance(cls, base) ==
    cls = base \/ \E b \in ExcBases(cls) : IsInstance(b, base)

\* a raised exception: its class and str(e)
Exc(cls, msg) == [cls |-> cls, msg |-> msg]

NoExc == Exc(None, <<>>)

\* how a call ends: it returns value, or it raises exc
Returned(value) == [raised |-> FALSE, exc |-> NoExc, value |-> value]

Raised(exc) == [raised |-> TRUE, exc |-> exc, value |-> NoProbe]

DigitChars == <<"0","1","2","3","4","5","6","7","8","9">>

IsDigits(s) == Len(s) > 0 /\ \A k \in 1..Len(s) : s[k] \in Digits

RECURSIVE DecimalValue(_)
DecimalValue(s) ==
    IF Len(s) = 0 THEN 0
    ELSE 10 * DecimalValue(SubSeq(s, 1, Len(s) - 1))
           + (CHOOSE d \in 0..9 : DigitChars[d + 1] = s[Len(s)])

\* the try block of probe_url, given how requests.get ended and what the
\* response holds: the result it returns, or the exception raised in it.
\* int() is modelled on header values that are digit strings (parsed) or
\* hold another character (ValueError).
TryBody(url, outcome) ==
    IF outcome.kind = "raise" THEN Raised(outcome.exc)
    ELSE LET response == outcome.response
             body == IF response.text_raises THEN <<>>
                     ELSE Take(response.text, BodyReadLimit)
             headers == [k \in {Lower(n) : n \in DOMAIN response.headers} |->
                           response.headers[CHOOSE n \in DOMAIN response.headers :
                                              Lower(n) = k]]
             filtered_headers == _filter_headers(headers)
             technologies == _detect_technologies(headers, body)
             final_url == IF response.url # url THEN Some(response.url) ELSE Absent
             has_length == <<"c","o","n","t","e","n","t","-","l","e","n","g","t","h">> \in DOMAIN headers
             length == IF has_length THEN headers[<<"c","o","n","t","e","n","t","-","l","e","n","g","t","h">>] ELSE <<"0">>
         IN  IF ~IsDigits(length)
             THEN Raised(Exc("ValueError", <<"i","n","v","a","l","i","d"," ","l","i","t","e","r","a","l"," ","f","o","r"," ","i","n","t","(",")"," ","w","i","t","h"," ","b","a","s","e"," ","1","0">>))
             ELSE Returned(
                    [present |-> TRUE, url |-> url,
                     status_code |-> response.status_code,
                     final_url |-> final_url,
                     headers |-> filtered_headers,
                     technologies |-> technologies,
                     server |-> IF <<"s","e","r","v","e","r">> \in DOMAIN headers
                                THEN Some(headers[<<"s","e","r","v","e","r">>]) ELSE Absent,
                     title |-> _extract_title(body),
                     content_length |-> IF DecimalValue(length) # 0
                                        THEN Some(DecimalValue(length)) ELSE Absent,
                     tls |-> StartsWith(url, <<"h","t","t","p","s",":","/","/">>),
                     error |-> Absent])

\* a faulty variant of ExceptClauses: the catch-all clause is missing
ExceptClausesNoCatchAll == <<"Timeout", "ConnectionError", "SSLError">>

\* the except clauses of probe_url, in the order in which they are written
ExceptClauses == <<"Timeout", "ConnectionError", "SSLError", "Exception">>

\* the error message of the except clause for ConnectionError
ConnectionErrorMsg(msg) ==
    IF Contains(msg, <<"N","a","m","e"," ","o","r"," ","s","e","r","v","i","c","e"," ","n","o","t"," ","k","n","o","w","n">>) THEN <<"d","n","s","_","f","a","i","l","e","d">>
    ELSE IF Contains(msg, <<"C","o","n","n","e","c","t","i","o","n"," ","r","e","f","u","s","e","d">>) THEN <<"c","o","n","n","e","c","t","i","o","n","_","r","e","f","u","s","e","d">>
    ELSE IF Contains(msg, <<"N","e","t","w","o","r","k"," ","i","s"," ","u","n","r","e","a","c","h","a","b","l","e">>) THEN <<"n","e","t","w","o","r","k","_","u","n","r","e","a","c","h","a","b","l","e">>
    ELSE <<"c","o","n","n","e","c","t","i","o","n","_","r","e","f","u","s","e","d">>

\* the error written by the except clause for class clause
ClauseError(clause, msg) ==
    CASE clause = "Timeout" -> <<"t","i","m","e","o","u","t">>
      [] clause = "ConnectionError" -> ConnectionErrorMsg(msg)
      [] clause = "SSLError" -> <<"s","s","l","_","e","r","r","o","r",":"," ">> \o Take(msg, ErrorDetailLimit)
      [] clause = "Exception" -> <<"u","n","k","n","o","w","n",":"," ">> \o Take(msg, ErrorDetailLimit)

\* the except clauses applied to an exception raised in the try block: the
\* first clause in order whose class the exception is an instance of returns
\* a failure result; with no such clause the exception leaves probe_url
Except(url, exc) ==
    LET matching == {k \in 1..Len(ExceptClauses) : IsInstance(exc.cls, ExceptClauses[k])}
    IN  IF matching = {} THEN Raised(exc)
        ELSE LET k == CHOOSE x \in matching : \A y \in matching : x <= y
             IN  Returned(HttpProbeResult(url, 0, StartsWith(url, <<"h","t","t","p","s",":","/","/">>),
                                          Some(ClauseError(ExceptClauses[k], exc.msg))))

\* probe_url(url), given how the request ends
probe_url(url, outcome) ==
    LET tried == TryBody(url, outcome)
    IN  IF tried.raised THEN Except(url, tried.exc) ELSE tried

\* the truth value of an Optional[str]: neither None nor empty
Truthy(opt) == opt # Absent /\ opt[1] # <<>>

(***************************************************************************)
(* core/prober.py: resolve_ip.                                             *)
(***************************************************************************)
\* the idna encoding of the name given to socket.gethostbyname fails
\* (UnicodeError: label empty or too long): a label other than the last is
\* empty, or a label has more than 63 characters
IdnaFails(domain) ==
    LET labels == Split(domain, ".")
    IN  \/ \E k \in 1..(Len(labels) - 1) : Len(labels[k]) = 0 \/ Len(labels[k]) >= 64
        \/ Len(labels[Len(labels)]) >= 64

\* the except clause of resolve_ip (socket.error is OSError)
ResolveCatches == "OSError"

\* resolve_ip(domain), given how socket.gethostbyname ends: the address,
\* None for a caught failure, or the exception it lets through
resolve_ip(domain, answer) ==
    IF answer.kind = "ip" THEN [raised |-> FALSE, exc |-> NoExc, ip |-> answer.ip]
    ELSE IF IsInstance(answer.exc.cls, ResolveCatches)
    THEN [raised |-> FALSE, exc |-> NoExc, ip |-> Absent]
    ELSE [raised |-> TRUE, exc |-> answer.exc, ip |-> Absent]

(***************************************************************************)
(* core/processor.py: Processor._dedupe, _tag, _filter.                    *)
(***************************************************************************)
\* the dedupe loop from position k on, with the domains seen so far
RECURSIVE DedupeFrom(_, _, _)
DedupeFrom(list, k, seen) ==
    IF k > Len(list) THEN <<>>
    ELSE IF list[k].domain \notin seen
         THEN <<list[k]>> \o DedupeFrom(list, k + 1, seen \cup {list[k].domain})
         ELSE DedupeFrom(list, k + 1, seen)

\* a faulty variant of _dedupe: the last occurrence of a domain is kept instead of the first
RECURSIVE DedupeKeepLastFrom(_, _)
DedupeKeepLastFrom(list, k) ==
    IF k > Len(list) THEN <<>>
    ELSE IF \E j \in (k + 1)..Len(list) : list[j].domain = list[k].domain
         THEN DedupeKeepLastFrom(list, k + 1)
         ELSE <<list[k]>> \o DedupeKeepLastFrom(list, k + 1)

DedupeKeepLast(list) == DedupeKeepLastFrom(list, 1)

_dedupe(list) == DedupeFrom(list, 1, {})

\* the inner loop of _tag: append every default pattern that matches, in
\* the order of DEFAULT_PATTERNS
RECURSIVE TagPatternsFrom(_, _, _)
TagPatternsFrom(domain, tags, k) ==
    IF k > Len(DEFAULT_PATTERNS) THEN tags
    ELSE IF _matches_pattern(domain, DEFAULT_PATTERNS[k])
         THEN TagPatternsFrom(domain, Append(tags, DEFAULT_PATTERNS[k]), k + 1)
         ELSE TagPatternsFrom(domain, tags, k + 1)

\* one iteration of _tag's outer loop
TagAsset(a) ==
    IF _is_false_positive(a.domain) THEN a
    ELSE [a EXCEPT !.tags = TagPatternsFrom(a.domain, a.tags, 1)]

_tag(list) == [k \in 1..Len(list) |-> TagAsset(list[k])]

\* a faulty variant of MatchesAnyFilter: a filter pattern matches as a substring
MatchesAnyFilterSubstring(domain, fs) ==
    \E k \in 1..Len(fs) : Contains(domain, fs[k])

\* the inner loop of _filter: does some filter pattern match
MatchesAnyFilter(domain, fs) ==
    \E k \in 1..Len(fs) : _matches_pattern(domain, fs[k])

RECURSIVE FilterFrom(_, _, _)
FilterFrom(list, fs, k) ==
    IF k > Len(list) THEN <<>>
    ELSE IF ~_is_false_positive(list[k].domain) /\ MatchesAnyFilter(list[k].domain, fs)
         THEN <<list[k]>> \o FilterFrom(list, fs, k + 1)
         ELSE FilterFrom(list, fs, k + 1)

_filter(list, fs) == FilterFrom(list, fs, 1)

(***************************************************************************)
(* The state.                                                              *)
(***************************************************************************)
VARIABLES
    pc,            \* position in Processor.process: "start", "deduped", "tagged",
                   \* "filtered", "checking", "done" (returned), "raised";
                   \* "idle" while only probe_url is exercised
    raw,           \* the list handed to Processor.process
    assets,        \* the local `assets` of process / _check_live
    self,          \* the Processor's fields
    i,             \* _check_live: the loop's 1-based index
    stage,         \* _check_live: where in the iteration: "resolve", "http", "https"
    http_result,   \* probe_domain: the http result while https is probed
    live_count,    \* _check_live's counters
    dead_count,
    stderr,        \* everything written to sys.stderr, in order
    calls,         \* the network calls issued, in order
    dns,           \* the network: what each resolved name answered
    web,           \* the network: how the request to each probed URL ended
    run,           \* 1: the Processor under test; 2: the reference run
    first_result,  \* what run 1 ended with, kept for run 2 to be compared with
    p_pc,          \* position in a lone probe_url call: "start", "response",
                   \* "except", "returned", "raised"; "idle" otherwise
    p_url,         \* probe_url's argument
    p_outcome,     \* how its requests.get ends
    p_exc,         \* the exception raised in its try block
    p_result,      \* what it returns
    f_pc,          \* position in CrtshSource.fetch: "loop" (in the retry loop),
                   \* "returned" (_request_with_retry has returned), "fetched",
                   \* "raised"; "idle" otherwise
    attempt,       \* _request_with_retry: the loop's 0-based index
    response,      \* _request_with_retry: the status code of the last response
                   \* received, 0 before the first
    last_error,    \* _request_with_retry: the last Timeout caught
    timeline,      \* the requests issued and the sleeps taken, in order
    f_exc,         \* the exception fetch lets out
    data,          \* the name_value entries upstream returns on success
    rows           \* CsvOutput.write: the rows written so far

procVars == <<pc, raw, assets, self>>

liveVars == <<i, stage, http_result, live_count, dead_count, stderr, calls,
              dns, web, run, first_result>>

probeVars == <<p_pc, p_url, p_outcome, p_exc, p_result>>

sourceVars == <<f_pc, attempt, response, last_error, timeline, f_exc, data>>

vars == <<pc, raw, assets, self, i, stage, http_result, live_count, dead_count,
          stderr, calls, dns, web, run, first_result,
          p_pc, p_url, p_outcome, p_exc, p_result,
          f_pc, attempt, response, last_error, timeline, f_exc, data, rows>>

\* the empty mapping
Empty == <<>>

\* _check_live has not been entered
LiveIdle ==
    /\ i = 0
    /\ stage = "resolve"
    /\ http_result = NoProbe
    /\ live_count = 0
    /\ dead_count = 0
    /\ stderr = <<>>
    /\ calls = <<>>
    /\ dns = Empty
    /\ web = Empty
    /\ run = 1
    /\ first_result = [pc |-> None, assets |-> <<>>, calls |-> <<>>, wrote |-> FALSE]

\* no lone probe_url call is under way
ProbeIdle ==
    /\ p_pc = "idle"
    /\ p_url = <<>>
    /\ p_outcome = [kind |-> None]
    /\ p_exc = NoExc
    /\ p_result = NoProbe

\* no fetch is under way
SourceIdle ==
    /\ f_pc = "idle"
    /\ attempt = 0
    /\ response = 0
    /\ last_error = NoExc
    /\ timeline = <<>>
    /\ f_exc = NoExc
    /\ data = <<>>

(***************************************************************************)
(* Inputs.                                                                 *)
(***************************************************************************)
\* all sequences over S of length at most n
SeqsUpTo(S, n) == UNION {[1..k -> S] : k \in 0..n}

\* Asset.source: the crt.sh adapter's name, and load_assets_from_file's default
Sources == {"crtsh", "file"}

\* components and separators from which classifier domains are generated
Components == {<<"d","e","v">>, <<"o","l","d">>, <<"v","p","n">>, <<"m","i","l">>, <<"d","e","v","e","n","s">>, <<"d","e","v","e","l","o","p","e","r">>, <<"m","e","d","e","v","a","c">>, <<"a">>}

Separators == {<<".">>, <<"-">>}

RECURSIVE GenDomains(_)
GenDomains(n) ==
    IF n <= 1 THEN Components
    ELSE GenDomains(n - 1) \cup
         {d \o sep \o c : d \in GenDomains(n - 1), sep \in Separators, c \in Components}

\* the candidate domains of the end-to-end example
ExampleDomains == <<<<"a",".","m","i","l">>, <<"A",".","M","I","L">>, <<"d","e","v",".","a",".","m","i","l">>, <<"d","e","v","e","l","o","p","e","r",".","a",".","m","i","l">>>>

ExampleInput == [k \in 1..Len(ExampleDomains) |-> Asset(ExampleDomains[k], "file")]

SmallDomains == {ExampleDomains[k] : k \in 1..Len(ExampleDomains)}

\* the same candidates after the case folding done at ingestion
\* (CrtshSource.fetch lower-cases every name before it builds an Asset)
FoldedExampleInput ==
    [k \in 1..Len(ExampleDomains) |-> Asset(Lower(ExampleDomains[k]), "crtsh")]

ClassifyInputs ==
    {<<Asset(d, "crtsh")>> : d \in GenDomains(MaxParts)}
      \cup SeqsUpTo({Asset(d, s) : d \in SmallDomains, s \in Sources}, MaxAssets)
      \cup {ExampleInput, FoldedExampleInput}

\* --filter values
FilterChoices == {<<>>, <<<<"d","e","v">>>>, <<<<"o","l","d">>, <<"v","p","n">>>>}

\* Processor(filters, check_liveness, probe_http, progress, verbose)
Processor(fs, cl, ph, pr, vb) ==
    [filters |-> fs, check_liveness |-> cl, probe_http |-> ph,
     show_progress |-> pr, verbose |-> vb]

(***************************************************************************)
(* Processor.process: dedupe, tag, filter.                                 *)
(***************************************************************************)
\* assets = self._dedupe(assets)
Dedupe ==
    /\ pc = "start"
    /\ assets' = _dedupe(raw)
    /\ pc' = "deduped"
    /\ UNCHANGED <<raw, self>>
    /\ UNCHANGED liveVars
    /\ UNCHANGED probeVars
    /\ UNCHANGED sourceVars
    /\ UNCHANGED rows

\* assets = self._tag(assets)
Tag ==
    /\ pc = "deduped"
    /\ assets' = _tag(assets)
    /\ pc' = "tagged"
    /\ UNCHANGED <<raw, self>>
    /\ UNCHANGED liveVars
    /\ UNCHANGED probeVars
    /\ UNCHANGED sourceVars
    /\ UNCHANGED rows

\* if self.filters: assets = self._filter(assets)
Filter ==
    /\ pc = "tagged"
    /\ self.filters # <<>>
    /\ assets' = _filter(assets, self.filters)
    /\ pc' = "filtered"
    /\ UNCHANGED <<raw, self>>
    /\ UNCHANGED liveVars
    /\ UNCHANGED probeVars
    /\ UNCHANGED sourceVars
    /\ UNCHANGED rows

\* process has passed the filter stage
PastFilter == pc = "filtered" \/ (pc = "tagged" /\ self.filters = <<>>)

\* return assets, when neither check_liveness nor probe_http is set
Return ==
    /\ PastFilter
    /\ ~(self.check_liveness \/ self.probe_http)
    /\ pc' = "done"
    /\ UNCHANGED <<raw, assets, self>>
    /\ UNCHANGED liveVars
    /\ UNCHANGED probeVars
    /\ UNCHANGED sourceVars
    /\ UNCHANGED rows

\* the classifier alone: Processor(filters).process(raw)
InitClassify ==
    /\ pc = "start"
    /\ raw \in ClassifyInputs
    /\ assets = raw
    /\ self \in {Processor(fs, FALSE, FALSE, pr, FALSE) : fs \in FilterChoices, pr \in BOOLEAN}
    /\ LiveIdle
    /\ ProbeIdle
    /\ SourceIdle
    /\ rows = <<>>

NextClassify == Dedupe \/ Tag \/ Filter \/ Return

SpecClassify == InitClassify /\ [][NextClassify]_vars

(***************************************************************************)
(* A lone call of probe_url, step by step.                                 *)
(***************************************************************************)
\* requests.get raised
RaiseOutcome(cls, msg) ==
    [kind |-> "raise", exc |-> Exc(cls, msg),
     response |-> [status_code |-> 0, url |-> <<>>, headers |-> <<>>,
                   text_raises |-> FALSE, text |-> <<>>]]

\* requests.get returned a response; text_raises: reading response.text fails
ResponseOutcome(status_code, url, headers, text_raises, text) ==
    [kind |-> "response", exc |-> NoExc,
     response |-> [status_code |-> status_code, url |-> url, headers |-> headers,
                   text_raises |-> text_raises, text |-> text]]

\* an exception text longer than ErrorDetailLimit
LongSslMessage ==
    <<"H","T","T","P","S","C","o","n","n","e","c","t","i","o","n","P","o","o","l","(","h","o","s","t","=","a",".","m","i","l",","," ","p","o","r","t","=","4","4","3",")",":"," ","M","a","x"," ","r","e","t","r","i","e","s"," ","e","x","c","e","e","d","e","d"," ","w","i","t","h"," ","u","r","l",":"," ","/"," ","(","C","a","u","s","e","d"," ","b","y"," ","S","S","L","E","r","r","o","r","(","S","S","L","C","e","r","t","V","e","r","i","f","i","c","a","t","i","o","n","E","r","r","o","r","(","1",","," ","[","S","S","L",":"," ","C","E","R","T","I","F","I","C","A","T","E","_","V","E","R","I","F","Y","_","F","A","I","L","E","D","]"," ","c","e","r","t","i","f","i","c","a","t","e"," ","v","e","r","i","f","y"," ","f","a","i","l","e","d",")",")",")">>

\* the ways requests.get raises
RaiseOutcomes ==
    { RaiseOutcome("ReadTimeout", <<"R","e","a","d"," ","t","i","m","e","d"," ","o","u","t","."," ","(","r","e","a","d"," ","t","i","m","e","o","u","t","=","3","0",".","0",")">>),
      RaiseOutcome("ConnectTimeout", <<"C","o","n","n","e","c","t","i","o","n"," ","t","o"," ","a",".","m","i","l"," ","t","i","m","e","d"," ","o","u","t">>),
      RaiseOutcome("ConnectionError", <<"[","E","r","r","n","o"," ","-","2","]"," ","N","a","m","e"," ","o","r"," ","s","e","r","v","i","c","e"," ","n","o","t"," ","k","n","o","w","n">>),
      RaiseOutcome("ConnectionError", <<"[","E","r","r","n","o"," ","1","1","1","]"," ","C","o","n","n","e","c","t","i","o","n"," ","r","e","f","u","s","e","d">>),
      RaiseOutcome("ConnectionError", <<"[","E","r","r","n","o"," ","1","0","1","]"," ","N","e","t","w","o","r","k"," ","i","s"," ","u","n","r","e","a","c","h","a","b","l","e">>),
      RaiseOutcome("ConnectionError", <<"C","o","n","n","e","c","t","i","o","n"," ","a","b","o","r","t","e","d",".">>),
      RaiseOutcome("ProxyError", <<"C","a","n","n","o","t"," ","c","o","n","n","e","c","t"," ","t","o"," ","p","r","o","x","y",".">>),
      RaiseOutcome("SSLError", <<"[","S","S","L",":"," ","W","R","O","N","G","_","V","E","R","S","I","O","N","_","N","U","M","B","E","R","]"," ","w","r","o","n","g"," ","v","e","r","s","i","o","n"," ","n","u","m","b","e","r">>),
      RaiseOutcome("SSLError", LongSslMessage),
      RaiseOutcome("TooManyRedirects", <<"E","x","c","e","e","d","e","d"," ","3","0"," ","r","e","d","i","r","e","c","t","s",".">>),
      RaiseOutcome("InvalidURL", <<"I","n","v","a","l","i","d"," ","U","R","L",":"," ","N","o"," ","h","o","s","t"," ","s","u","p","p","l","i","e","d">>),
      RaiseOutcome("UnicodeError", <<"l","a","b","e","l"," ","e","m","p","t","y"," ","o","r"," ","t","o","o"," ","l","o","n","g">>),
      RaiseOutcome("RequestException", <<>>) }

\* response header sets
HeaderChoices ==
    { <<>>,
      (<<"S","e","r","v","e","r">> :> <<"A","p","a","c","h","e","/","2",".","4",".","4","1">>) @@ (<<"C","o","n","t","e","n","t","-","L","e","n","g","t","h">> :> <<"1","2","3","4">>) @@ (<<"D","a","t","e">> :> <<"T","u","e">>),
      (<<"S","e","r","v","e","r">> :> <<"M","i","c","r","o","s","o","f","t","-","I","I","S","/","1","0",".","0">>) @@ (<<"X","-","P","o","w","e","r","e","d","-","B","y">> :> <<"A","S","P",".","N","E","T">>)
         @@ (<<"C","o","n","t","e","n","t","-","L","e","n","g","t","h">> :> <<"0">>),
      (<<"X","-","P","o","w","e","r","e","d","-","B","y">> :> <<"P","H","P">>) @@ (<<"C","o","n","t","e","n","t","-","L","e","n","g","t","h">> :> <<"1","2",","," ","1","2">>),
      (<<"X","-","P","o","w","e","r","e","d","-","B","y">> :> <<"P","H","P">>),
      (<<"X","-","P","o","w","e","r","e","d","-","B","y">> :> <<"P","H","P","/","8",".","1",".","2">>) @@ (<<"S","e","r","v","e","r">> :> <<"M","i","c","r","o","s","o","f","t","-","I","I","S">>),
      (<<"s","e","r","v","e","r">> :> <<"n","g","i","n","x">>) @@ (<<"c","o","n","t","e","n","t","-","l","e","n","g","t","h">> :> <<>>) }

BodyChoices == { <<>>, <<"<","t","i","t","l","e",">"," ","H","i"," ","<","/","t","i","t","l","e",">">>, <<"<","a"," ","h","r","e","f","=","/","w","p","-","c","o","n","t","e","n","t","/","x",">">> }

\* HTTP status codes of a received response
StatusChoices == {200, 404, 503}

\* response.url: the requested URL, with or without the path requests adds,
\* or where a redirect led
ResponseUrls(url) == {url, url \o <<"/">>, <<"h","t","t","p","s",":","/","/","w","w","w",".","a",".","m","i","l","/">>}

ResponseOutcomes(url) ==
    {ResponseOutcome(sc, u, h, tr, b) :
        sc \in StatusChoices, u \in ResponseUrls(url), h \in HeaderChoices,
        tr \in BOOLEAN, b \in BodyChoices}

ProbeUrls == {<<"h","t","t","p",":","/","/","a",".","m","i","l">>, <<"h","t","t","p","s",":","/","/","a",".","m","i","l">>}

\* requests.get(url, ...) ends
ProbeRequest ==
    /\ p_pc = "start"
    /\ IF p_outcome.kind = "raise"
       THEN p_pc' = "except" /\ p_exc' = p_outcome.exc
       ELSE p_pc' = "response" /\ p_exc' = p_exc
    /\ UNCHANGED <<p_url, p_outcome, p_result>>
    /\ UNCHANGED procVars
    /\ UNCHANGED liveVars
    /\ UNCHANGED sourceVars
    /\ UNCHANGED rows

\* the rest of the try block: the response is turned into a result
ProbeBuild ==
    /\ p_pc = "response"
    /\ LET tried == TryBody(p_url, p_outcome)
       IN  IF tried.raised
           THEN p_pc' = "except" /\ p_exc' = tried.exc /\ p_result' = p_result
           ELSE p_pc' = "returned" /\ p_exc' = p_exc /\ p_result' = tried.value
    /\ UNCHANGED <<p_url, p_outcome>>
    /\ UNCHANGED procVars
    /\ UNCHANGED liveVars
    /\ UNCHANGED sourceVars
    /\ UNCHANGED rows

\* the except clauses
ProbeExcept ==
    /\ p_pc = "except"
    /\ LET handled == Except(p_url, p_exc)
       IN  IF handled.raised
           THEN p_pc' = "raised" /\ p_result' = p_result
           ELSE p_pc' = "returned" /\ p_result' = handled.value
    /\ UNCHANGED <<p_url, p_outcome, p_exc>>
    /\ UNCHANGED procVars
    /\ UNCHANGED liveVars
    /\ UNCHANGED sourceVars
    /\ UNCHANGED rows

InitProbe ==
    /\ pc = "idle"
    /\ raw = <<>>
    /\ assets = <<>>
    /\ self = Processor(<<>>, FALSE, FALSE, FALSE, FALSE)
    /\ LiveIdle
    /\ p_pc = "start"
    /\ p_url \in ProbeUrls
    /\ p_outcome \in RaiseOutcomes \cup ResponseOutcomes(p_url)
    /\ p_exc = NoExc
    /\ p_result = NoProbe
    /\ SourceIdle
    /\ rows = <<>>

NextProbe == ProbeRequest \/ ProbeBuild \/ ProbeExcept

SpecProbe == InitProbe /\ [][NextProbe]_vars

(***************************************************************************)
(* core/processor.py: what is written to sys.stderr.                       *)
(***************************************************************************)
\* str(n) for n >= 0
RECURSIVE IntToStr(_)
IntToStr(n) ==
    IF n < 10 THEN <<DigitChars[n + 1]>>
    ELSE IntToStr(n \div 10) \o <<DigitChars[(n % 10) + 1]>>

\* a faulty variant of Progress: the index is counted from 0
ProgressZeroBased(current, total, domain, status) ==
    [kind |-> "progress", current |-> current - 1, total |-> total,
     domain |-> domain, status |-> status, live |-> 0, dead |-> 0]

\* one call of self.progress_callback(current, total, domain, status)
Progress(current, total, domain, status) ==
    [kind |-> "progress", current |-> current, total |-> total,
     domain |-> domain, status |-> status, live |-> 0, dead |-> 0]

\* one call of _progress_complete(total, live, dead)
ProgressComplete(total, live, dead) ==
    [kind |-> "complete", current |-> 0, total |-> total,
     domain |-> <<>>, status |-> <<>>, live |-> live, dead |-> dead]

\* one call of _verbose_log(message)
VerboseLog(message) ==
    [kind |-> "verbose", current |-> 0, total |-> 0,
     domain |-> <<>>, status |-> message, live |-> 0, dead |-> 0]

\* `if flag: write(event)`
Emit(out, flag, event) == IF flag THEN Append(out, event) ELSE out

\* ",".join(result.technologies[:3])
TechStr(result) == Join(Take(result.technologies, 3), <<",">>)

\* the entries one probe result adds to status_parts
StatusParts(label, result) ==
    IF result.present /\ ~Truthy(result.error)
    THEN <<label \o <<":">> \o IntToStr(result.status_code)>>
           \o (IF TechStr(result) # <<>> THEN <<<<"[">> \o TechStr(result) \o <<"]">>>> ELSE <<>>)
    ELSE IF result.present /\ Truthy(result.error)
    THEN <<label \o <<":">> \o result.error[1]>>
    ELSE <<>>

\* " ".join(status_parts) or "live"
ProbeStatus(http, https) ==
    LET joined == Join(StatusParts(<<"h","t","t","p","s">>, https) \o StatusParts(<<"h","t","t","p">>, http), <<" ">>)
    IN  IF joined # <<>> THEN joined ELSE <<"l","i","v","e">>

\* the verbose line for one probe result (its duration is left out)
VerboseProbeLine(label, result) ==
    IF ~result.present THEN <<>>
    ELSE IF Truthy(result.error)
    THEN <<VerboseLog(<<" "," ">> \o label \o <<":"," ">> \o result.error[1])>>
    ELSE <<VerboseLog(
             <<" "," ">> \o label \o <<":"," ">> \o IntToStr(result.status_code)
               \o (IF Truthy(result.final_url) THEN <<" ","-",">"," ">> \o result.final_url[1] ELSE <<>>)
               \o (IF result.technologies # <<>>
                   THEN <<" ","[">> \o Join(result.technologies, <<","," ">>) \o <<"]">> ELSE <<>>))>>

\* the verbose lines after probe_domain: https first, then http
VerboseProbeLines(http, https) ==
    VerboseProbeLine(<<"h","t","t","p","s">>, https) \o VerboseProbeLine(<<"h","t","t","p">>, http)

(***************************************************************************)
(* core/processor.py: Processor._check_live.                               *)
(***************************************************************************)
\* a network call, resolve_ip(arg) or probe_url(arg), and what it returned:
\* an address or None, or an HttpProbeResult
Call(op, arg, ip, result) == [op |-> op, arg |-> arg, ip |-> ip, result |-> result]

\* how socket.gethostbyname(domain) can end
GethostbynameAnswers(domain) ==
    IF IdnaFails(domain)
    THEN {[kind |-> "raise", ip |-> Absent,
           exc |-> Exc("UnicodeError", <<"l","a","b","e","l"," ","e","m","p","t","y"," ","o","r"," ","t","o","o"," ","l","o","n","g">>)]}
    ELSE {[kind |-> "ip", ip |-> Some(<<"1","9","2",".","0",".","2",".","1","0">>), exc |-> NoExc],
          [kind |-> "raise", ip |-> Absent,
           exc |-> Exc("gaierror", <<"[","E","r","r","n","o"," ","-","2","]"," ","N","a","m","e"," ","o","r"," ","s","e","r","v","i","c","e"," ","n","o","t"," ","k","n","o","w","n">>)]}

\* how the request to a live host's URL can end
WebAnswers(url) ==
    { ResponseOutcome(200, url \o <<"/">>,
                      (<<"S","e","r","v","e","r">> :> <<"A","p","a","c","h","e","/","2",".","4",".","4","1">>), FALSE, <<"<","t","i","t","l","e",">","H","i","<","/","t","i","t","l","e",">">>),
      RaiseOutcome("ConnectionError", <<"[","E","r","r","n","o"," ","1","1","1","]"," ","C","o","n","n","e","c","t","i","o","n"," ","r","e","f","u","s","e","d">>) }

\* the network answers a repeated question as it did before
Answers(memory, key, fresh) ==
    IF key \in DOMAIN memory THEN {memory[key]} ELSE fresh

Remember(memory, key, answer) ==
    IF key \in DOMAIN memory THEN memory ELSE memory @@ (key :> answer)

\* a faulty variant of ProbeWanted: hosts that did not resolve are probed too
ProbeWantedAlsoDead(cfg, ip) == cfg.probe_http

\* a faulty variant of ProbeWanted: probing sits inside the `if self.show_progress` block
ProbeWantedIfProgress(cfg, ip) == Truthy(ip) /\ cfg.probe_http /\ cfg.show_progress

\* `if ip:` ... `if self.probe_http:`
ProbeWanted(cfg, ip) == Truthy(ip) /\ cfg.probe_http

\* a faulty variant of Tally: dead hosts are not counted
TallyLiveOnly(live, dead, is_live) ==
    IF is_live THEN <<live + 1, dead>> ELSE <<live, dead>>

\* live_count += 1 / dead_count += 1
Tally(live, dead, is_live) ==
    IF is_live THEN <<live + 1, dead>> ELSE <<live, dead + 1>>

\* a faulty variant of RecordProbes: the https result is dropped when the http probe failed
RecordProbesUnlessHttpFailed(asset, http, https) ==
    IF Truthy(http.error) THEN [asset EXCEPT !.http = http]
    ELSE [asset EXCEPT !.http = http, !.https = https]

\* asset.http = http_result; asset.https = https_result
RecordProbes(asset, http, https) ==
    [asset EXCEPT !.http = http, !.https = https]

\* assets = self._check_live(assets), up to the loop
EnterCheckLive ==
    /\ PastFilter
    /\ self.check_liveness \/ self.probe_http
    /\ pc' = "checking"
    /\ i' = 1
    /\ stage' = "resolve"
    /\ live_count' = 0
    /\ dead_count' = 0
    /\ UNCHANGED <<raw, assets, self, http_result, stderr, calls, dns, web, run,
                   first_result>>
    /\ UNCHANGED probeVars
    /\ UNCHANGED sourceVars
    /\ UNCHANGED rows

\* one iteration of the loop, from its head through the DNS branch
Resolve ==
    /\ pc = "checking"
    /\ i <= Len(assets)
    /\ stage = "resolve"
    /\ \E answer \in Answers(dns, assets[i].domain, GethostbynameAnswers(assets[i].domain)) :
         LET domain == assets[i].domain
             total == Len(assets)
             resolved == resolve_ip(domain, answer)
             ip == resolved.ip
             begun == Emit(stderr, self.show_progress,
                           Progress(i, total, domain, <<"r","e","s","o","l","v","i","n","g",".",".",".">>))
             tally == Tally(live_count, dead_count, Truthy(ip))
         IN  /\ dns' = Remember(dns, domain, answer)
             /\ calls' = Append(calls, Call("resolve_ip", domain, ip, NoProbe))
             /\ IF resolved.raised
                THEN /\ pc' = "raised"
                     /\ stderr' = begun
                     /\ UNCHANGED <<assets, i, stage, live_count, dead_count>>
                ELSE /\ pc' = pc
                     /\ live_count' = tally[1]
                     /\ dead_count' = tally[2]
                     /\ IF Truthy(ip)
                        THEN /\ assets' = [assets EXCEPT ![i].ip = ip, ![i].live = "True"]
                             /\ stderr' =
                                  LET logged == Emit(begun, self.verbose,
                                                     VerboseLog(domain \o <<" ","-",">"," ">> \o ip[1]))
                                  IN  IF ProbeWanted(self, ip)
                                      THEN Emit(logged, self.show_progress,
                                                Progress(i, total, domain, <<"p","r","o","b","i","n","g"," ","h","t","t","p",".",".",".">>))
                                      ELSE Emit(logged, self.show_progress,
                                                Progress(i, total, domain,
                                                         <<"l","i","v","e"," ","(">> \o ip[1] \o <<")">>))
                        ELSE /\ assets' = [assets EXCEPT ![i].live = "False"]
                             /\ stderr' =
                                  Emit(Emit(begun, self.show_progress,
                                            Progress(i, total, domain, <<"d","e","a","d">>)),
                                       self.verbose, VerboseLog(domain \o <<" ","-",">"," ","D","N","S"," ","f","a","i","l","e","d">>))
                     /\ IF ProbeWanted(self, ip)
                        THEN stage' = "http" /\ i' = i
                        ELSE stage' = "resolve" /\ i' = i + 1
    /\ UNCHANGED <<raw, self, http_result, web, run, first_result>>
    /\ UNCHANGED probeVars
    /\ UNCHANGED sourceVars
    /\ UNCHANGED rows

\* probe_domain: http_result = probe_url(f"http://{domain}")
ProbeHttp ==
    /\ pc = "checking"
    /\ stage = "http"
    /\ LET url == <<"h","t","t","p",":","/","/">> \o assets[i].domain
       IN  \E outcome \in Answers(web, url, WebAnswers(url)) :
             LET probed == probe_url(url, outcome)
             IN  /\ web' = Remember(web, url, outcome)
                 /\ calls' = Append(calls, Call("probe_url", url, Absent, probed.value))
                 /\ IF probed.raised
                    THEN pc' = "raised" /\ UNCHANGED <<stage, http_result>>
                    ELSE pc' = pc /\ stage' = "https" /\ http_result' = probed.value
    /\ UNCHANGED <<raw, assets, self, i, live_count, dead_count, stderr, dns, run,
                   first_result>>
    /\ UNCHANGED probeVars
    /\ UNCHANGED sourceVars
    /\ UNCHANGED rows

\* probe_domain: https_result = probe_url(f"https://{domain}"), and the rest
\* of the iteration: both results recorded, logged and reported
ProbeHttps ==
    /\ pc = "checking"
    /\ stage = "https"
    /\ LET domain == assets[i].domain
           url == <<"h","t","t","p","s",":","/","/">> \o domain
       IN  \E outcome \in Answers(web, url, WebAnswers(url)) :
             LET probed == probe_url(url, outcome)
                 https_result == probed.value
                 logged == IF self.verbose
                           THEN stderr \o VerboseProbeLines(http_result, https_result)
                           ELSE stderr
             IN  /\ web' = Remember(web, url, outcome)
                 /\ calls' = Append(calls, Call("probe_url", url, Absent, probed.value))
                 /\ IF probed.raised
                    THEN pc' = "raised" /\ UNCHANGED <<assets, i, stage, http_result, stderr>>
                    ELSE /\ pc' = pc
                         /\ assets' = [assets EXCEPT
                                         ![i] = RecordProbes(@, http_result, https_result)]
                         /\ stderr' = Emit(logged, self.show_progress,
                                           Progress(i, Len(assets), domain,
                                                    ProbeStatus(http_result, https_result)))
                         /\ i' = i + 1
                         /\ stage' = "resolve"
                         /\ http_result' = NoProbe
    /\ UNCHANGED <<raw, self, live_count, dead_count, dns, run, first_result>>
    /\ UNCHANGED probeVars
    /\ UNCHANGED sourceVars
    /\ UNCHANGED rows

\* after the loop: the summary, and return assets
Complete ==
    /\ pc = "checking"
    /\ i > Len(assets)
    /\ stderr' = Emit(stderr, self.show_progress,
                      ProgressComplete(Len(assets), live_count, dead_count))
    /\ pc' = "done"
    /\ UNCHANGED <<raw, assets, self, i, stage, http_result, live_count, dead_count,
                   calls, dns, web, run, first_result>>
    /\ UNCHANGED probeVars
    /\ UNCHANGED sourceVars
    /\ UNCHANGED rows

\* after a run with progress or verbose on: a reference Processor, with both
\* off and otherwise the same arguments, processes a fresh copy of the same
\* input against the same network
SecondRun ==
    /\ pc \in {"done", "raised"}
    /\ run = 1
    /\ self.show_progress \/ self.verbose
    /\ first_result' = [pc |-> pc, assets |-> assets, calls |-> calls,
                      wrote |-> stderr # <<>>]
    /\ run' = 2
    /\ self' = Processor(self.filters, self.check_liveness, self.probe_http, FALSE, FALSE)
    /\ pc' = "start"
    /\ assets' = raw
    /\ i' = 0
    /\ stage' = "resolve"
    /\ http_result' = NoProbe
    /\ live_count' = 0
    /\ dead_count' = 0
    /\ stderr' = <<>>
    /\ calls' = <<>>
    /\ UNCHANGED <<raw, dns, web>>
    /\ UNCHANGED probeVars
    /\ UNCHANGED sourceVars
    /\ UNCHANGED rows

\* the domains of the pipeline's inputs: one with an empty label among them
LiveDomains == {<<"a",".","m","i","l">>, <<"d","e","v",".","a",".","m","i","l">>, <<"a",".",".","m","i","l">>}

LiveInputs == SeqsUpTo({Asset(d, "crtsh") : d \in LiveDomains}, MaxAssets)

\* Processor(...).process(raw)
Init ==
    /\ pc = "start"
    /\ raw \in LiveInputs
    /\ assets = raw
    /\ self \in {Processor(fs, cl, ph, pr, vb) :
                   fs \in {<<>>, <<<<"d","e","v">>>>}, cl \in BOOLEAN, ph \in BOOLEAN,
                   pr \in BOOLEAN, vb \in BOOLEAN}
    /\ LiveIdle
    /\ ProbeIdle
    /\ SourceIdle
    /\ rows = <<>>

Next ==
    \/ Dedupe
    \/ Tag
    \/ Filter
    \/ Return
    \/ EnterCheckLive
    \/ Resolve
    \/ ProbeHttp
    \/ ProbeHttps
    \/ Complete
    \/ SecondRun

Spec == Init /\ [][Next]_vars

(***************************************************************************)
(* sources/crtsh.py: CrtshSource.                                          *)
(***************************************************************************)
max_retries == 12

retry_delay == 45

\* response.raise_for_status() raises HTTPError
RaisesForStatus(status_code) == 400 <= status_code /\ status_code < 600

\* a faulty variant of MayRetry: the last attempt is followed by a sleep too
MayRetryAlways(n) == TRUE

\* `if attempt < self.max_retries - 1`
MayRetry(n) == n < max_retries - 1

\* the except clause of the retry loop
RetryCatches == "Timeout"

\* an entry of the timeline: requests.get(...) or time.sleep(seconds)
Requested == [op |-> "get", seconds |-> 0]

Slept(seconds) == [op |-> "sleep", seconds |-> seconds]

\* how one request to crt.sh can end
UpstreamOutcomes ==
    {[kind |-> "response", status_code |-> st, exc |-> NoExc] :
        st \in {200, 404, 500, 502, 503}}
      \cup
    {[kind |-> "raise", status_code |-> 0, exc |-> e] :
        e \in {Exc("ReadTimeout", <<"R","e","a","d"," ","t","i","m","e","d"," ","o","u","t",".">>),
               Exc("ConnectTimeout", <<"C","o","n","n","e","c","t","i","o","n"," ","t","o"," ","c","r","t",".","s","h"," ","t","i","m","e","d"," ","o","u","t">>),
               Exc("ConnectionError", <<"C","o","n","n","e","c","t","i","o","n"," ","r","e","s","e","t"," ","b","y"," ","p","e","e","r">>)}}

\* one iteration of the retry loop, given how its request ends: where the
\* loop stands afterwards
Iteration(n, last, outcome) ==
    LET again == [pc |-> "loop", attempt |-> n + 1, last_error |-> last,
                  slept |-> MayRetry(n), exc |-> NoExc]
        out(e) == [pc |-> "raised", attempt |-> n, last_error |-> last,
                   slept |-> FALSE, exc |-> e]
        http_error == Exc("HTTPError", IntToStr(outcome.status_code) \o <<" ","E","r","r","o","r">>)
    IN  IF outcome.kind = "response"
        THEN IF outcome.status_code \in {502, 503} /\ MayRetry(n)
             THEN again
             ELSE IF RaisesForStatus(outcome.status_code)
             THEN IF IsInstance("HTTPError", RetryCatches)
                  THEN [again EXCEPT !.last_error = http_error]
                  ELSE out(http_error)
             ELSE [pc |-> "returned", attempt |-> n, last_error |-> last,
                   slept |-> FALSE, exc |-> NoExc]
        ELSE IF IsInstance(outcome.exc.cls, RetryCatches)
        THEN [again EXCEPT !.last_error = outcome.exc]
        ELSE out(outcome.exc)

\* the loop over data.split("\n") of one name_value, from piece k on
RECURSIVE FetchPieces(_, _, _)
FetchPieces(pieces, k, acc) ==
    IF k > Len(pieces) THEN acc
    ELSE LET d == Strip(pieces[k])
             stripped == IF StartsWith(d, <<"*",".">>) THEN Drop(d, 2) ELSE d
         IN  IF d = <<>> \/ d \in acc.seen \/ Contains(d, <<"@">>)
             THEN FetchPieces(pieces, k + 1, acc)
             ELSE IF stripped \in acc.seen
             THEN FetchPieces(pieces, k + 1, acc)
             ELSE FetchPieces(pieces, k + 1,
                              [seen |-> acc.seen \cup {stripped},
                               assets |-> Append(acc.assets, Asset(stripped, "crtsh"))])

\* the loop over the entries, from entry k on
RECURSIVE FetchEntries(_, _, _)
FetchEntries(entries, k, acc) ==
    IF k > Len(entries) THEN acc.assets
    ELSE LET domain == Strip(Lower(entries[k]))
         IN  IF domain = <<>> \/ domain \in acc.seen
             THEN FetchEntries(entries, k + 1, acc)
             ELSE FetchEntries(entries, k + 1,
                               FetchPieces(Split(domain, "\n"), 1, acc))

\* fetch, after the response: the assets made of its name_value entries
fetch(entries) == FetchEntries(entries, 1, [seen |-> {}, assets |-> <<>>])

\* one iteration of `for attempt in range(self.max_retries)`
Attempt ==
    /\ f_pc = "loop"
    /\ attempt < max_retries
    /\ \E outcome \in UpstreamOutcomes :
         LET after == Iteration(attempt, last_error, outcome)
         IN  /\ f_pc' = after.pc
             /\ attempt' = after.attempt
             /\ last_error' = after.last_error
             /\ response' = IF outcome.kind = "response" THEN outcome.status_code
                             ELSE response
             /\ f_exc' = after.exc
             /\ timeline' = timeline \o <<Requested>>
                              \o (IF after.slept THEN <<Slept(retry_delay)>> ELSE <<>>)
    /\ UNCHANGED <<data, rows>>
    /\ UNCHANGED procVars
    /\ UNCHANGED liveVars
    /\ UNCHANGED probeVars

\* the loop has ended: raise RuntimeError(f"Failed after ... {last_error}")
Exhausted ==
    /\ f_pc = "loop"
    /\ attempt = max_retries
    /\ f_pc' = "raised"
    /\ f_exc' = Exc("RuntimeError",
                    <<"F","a","i","l","e","d"," ","a","f","t","e","r"," ">> \o IntToStr(max_retries) \o <<" ","a","t","t","e","m","p","t","s",":"," ">>
                      \o last_error.msg)
    /\ UNCHANGED <<attempt, response, last_error, timeline, data, rows>>
    /\ UNCHANGED procVars
    /\ UNCHANGED liveVars
    /\ UNCHANGED probeVars

\* the rest of fetch: response.json() is turned into assets
FetchAssets ==
    /\ f_pc = "returned"
    /\ raw' = fetch(data)
    /\ f_pc' = "fetched"
    /\ UNCHANGED <<pc, assets, self>>
    /\ UNCHANGED <<attempt, response, last_error, timeline, f_exc, data, rows>>
    /\ UNCHANGED liveVars
    /\ UNCHANGED probeVars

\* name_value contents: plain, upper-case, wildcard, bare and nested
\* wildcard, an e-mail address, several lines, blank
NameValues ==
    {<<"a",".","m","i","l">>, <<"A",".","m","i","l">>, <<"*",".","a",".","m","i","l">>, <<"*",".">>, <<"*",".","*",".","a",".","m","i","l">>, <<"x","@","a",".","m","i","l">>,
     <<"*",".","b",".","m","i","l">> \o <<"\n">> \o <<" ","b",".","m","i","l"," ">>, <<" ">>}

\* CrtshSource().fetch(query)
InitFetch ==
    /\ pc = "idle"
    /\ raw = <<>>
    /\ assets = <<>>
    /\ self = Processor(<<>>, FALSE, FALSE, FALSE, FALSE)
    /\ LiveIdle
    /\ ProbeIdle
    /\ rows = <<>>
    /\ f_pc = "loop"
    /\ attempt = 0
    /\ response = 0
    /\ last_error = NoExc
    /\ timeline = <<>>
    /\ f_exc = NoExc
    /\ data \in SeqsUpTo(NameValues, MaxEntries)

NextFetch == Attempt \/ Exhausted \/ FetchAssets

SpecFetch == InitFetch /\ [][NextFetch]_vars

\* the interpreter keeps running the retry loop
FairSpecFetch == SpecFetch /\ WF_vars(Attempt \/ Exhausted)

(***************************************************************************)
(* outputs/csv.py: CsvOutput.write.                                        *)
(***************************************************************************)
\* probe = asset.https or asset.http (a model instance is truthy, None is not)
ProbeOf(asset) == IF asset.https.present THEN asset.https ELSE asset.http

\* what csv.DictWriter writes for an Optional[str]: None is the empty string
Cell(opt) == IF opt = Absent THEN <<>> ELSE opt[1]

\* the row written for one asset (discovered_at, a clock reading, is left
\* out; org is set by nothing)
CsvRow(asset) ==
    LET probe == ProbeOf(asset)
    IN  [domain |-> asset.domain,
         source |-> asset.source,
         ip |-> Cell(asset.ip),
         org |-> <<>>,
         tags |-> Join(asset.tags, <<",">>),
         live |-> IF asset.live = None THEN <<>>
                  ELSE IF asset.live = "True" THEN <<"T","r","u","e">> ELSE <<"F","a","l","s","e">>,
         https_status |-> IF asset.https.present
                          THEN IntToStr(asset.https.status_code) ELSE <<>>,
         http_status |-> IF asset.http.present
                         THEN IntToStr(asset.http.status_code) ELSE <<>>,
         server |-> IF probe.present THEN Cell(probe.server) ELSE <<>>,
         technologies |-> IF probe.present THEN Join(probe.technologies, <<",">>) ELSE <<>>,
         title |-> IF probe.present THEN Cell(probe.title) ELSE <<>>]

\* one iteration of `for asset in assets`
WriteRow ==
    /\ pc = "csv"
    /\ Len(rows) < Len(assets)
    /\ rows' = Append(rows, CsvRow(assets[Len(rows) + 1]))
    /\ UNCHANGED procVars
    /\ UNCHANGED liveVars
    /\ UNCHANGED probeVars
    /\ UNCHANGED sourceVars

\* how the probe of one URL of a live host can have ended: a page with a
\* Server header and a title, a page with neither, a refused connection
CsvProbes(url) ==
    { probe_url(url, ResponseOutcome(200, url \o <<"/">>, (<<"S","e","r","v","e","r">> :> <<"A","p","a","c","h","e","/","2",".","4",".","4","1">>),
                                     FALSE, <<"<","t","i","t","l","e",">","H","i","<","/","t","i","t","l","e",">">>)).value,
      probe_url(url, ResponseOutcome(200, url \o <<"/">>, (<<"S","e","r","v","e","r">> :> <<"n","g","i","n","x">>),
                                     FALSE, <<"<","t","i","t","l","e",">","L","o","<","/","t","i","t","l","e",">">>)).value,
      probe_url(url, ResponseOutcome(404, url \o <<"/">>, <<>>, FALSE, <<>>)).value,
      probe_url(url, RaiseOutcome("ConnectionError",
                                  <<"[","E","r","r","n","o"," ","1","1","1","]"," ","C","o","n","n","e","c","t","i","o","n"," ","r","e","f","u","s","e","d">>)).value }

\* assets as the pipeline leaves them: not checked, dead, live, live and probed
CsvAssets ==
    { Asset(<<"a",".","m","i","l">>, "crtsh"),
      [Asset(<<"a",".","m","i","l">>, "crtsh") EXCEPT !.live = "False"],
      [Asset(<<"d","e","v",".","a",".","m","i","l">>, "crtsh") EXCEPT
         !.ip = Some(<<"1","9","2",".","0",".","2",".","1","0">>), !.live = "True", !.tags = <<<<"d","e","v">>>>] }
      \cup
    { [Asset(<<"a",".","m","i","l">>, "crtsh") EXCEPT
         !.ip = Some(<<"1","9","2",".","0",".","2",".","1","0">>), !.live = "True", !.http = h, !.https = s] :
        h \in CsvProbes(<<"h","t","t","p",":","/","/","a",".","m","i","l">>), s \in CsvProbes(<<"h","t","t","p","s",":","/","/","a",".","m","i","l">>) }

\* CsvOutput().write(assets)
InitCsv ==
    /\ pc = "csv"
    /\ raw = <<>>
    /\ assets \in SeqsUpTo(CsvAssets, MaxAssets)
    /\ self = Processor(<<>>, FALSE, FALSE, FALSE, FALSE)
    /\ LiveIdle
    /\ ProbeIdle
    /\ SourceIdle
    /\ rows = <<>>

NextCsv == WriteRow

SpecCsv == InitCsv /\ [][NextCsv]_vars

(***************************************************************************)
(* Claims about the liveness/probing pipeline, checked under Spec.         *)
(***************************************************************************)
\* the positions of the network calls that are op(arg)
CallsOf(op, arg) == {c \in 1..Len(calls) : calls[c].op = op /\ calls[c].arg = arg}

\* the assets the loop of _check_live has finished with
Finished == 1..Min(i - 1, Len(assets))

\* the assets whose DNS resolution has completed
Resolved == {k \in 1..Len(assets) : assets[k].live # None}

HttpUrl(k) == <<"h","t","t","p",":","/","/">> \o assets[k].domain

HttpsUrl(k) == <<"h","t","t","p","s",":","/","/">> \o assets[k].domain

\* C1: a probe request is made only when probing is enabled, and only for a
\* domain whose DNS resolution, made before it, returned an address; an
\* asset whose resolution failed has live false; it, and every asset when
\* probing is disabled, is not probed and keeps its http and https fields
\* unwritten
C1_ProbeOnlyResolvedWhenEnabled ==
    /\ \A c \in 1..Len(calls) :
         calls[c].op = "probe_url" =>
           /\ self.probe_http
           /\ \E k \in 1..Len(assets) :
                /\ calls[c].arg \in {HttpUrl(k), HttpsUrl(k)}
                /\ assets[k].live = "True"
                /\ dns[assets[k].domain].kind = "ip"
                /\ \E r \in CallsOf("resolve_ip", assets[k].domain) : r < c
    /\ \A k \in Finished :
         dns[assets[k].domain].kind # "ip" => assets[k].live = "False"
    /\ \A k \in 1..Len(assets) :
         (~self.probe_http \/ assets[k].live # "True") =>
           /\ assets[k].http = NoProbe
           /\ assets[k].https = NoProbe
           /\ CallsOf("probe_url", HttpUrl(k)) = {}
           /\ CallsOf("probe_url", HttpsUrl(k)) = {}

\* probing is enabled, one asset failed to resolve and was left unprobed,
\* another resolved and was probed
C1_Witness ==
    /\ self.probe_http
    /\ pc = "done"
    /\ \E k, m \in 1..Len(assets) :
         /\ assets[k].live = "False"
         /\ assets[k].http = NoProbe
         /\ assets[m].live = "True"
         /\ CallsOf("probe_url", HttpUrl(m)) # {}

\* C2: with probing enabled, every asset the loop has finished with and whose
\* resolution succeeded has live true and the resolved ip, was resolved, then
\* probed exactly once over http and then exactly once over https on its bare
\* domain, and carries both results as probe_url returned them, failed or not
C2_BothProbesMadeAndRecorded ==
    self.probe_http =>
      \A k \in Finished :
        dns[assets[k].domain].kind = "ip" =>
          /\ assets[k].live = "True"
          /\ assets[k].ip = dns[assets[k].domain].ip
          /\ Cardinality(CallsOf("probe_url", HttpUrl(k))) = 1
          /\ Cardinality(CallsOf("probe_url", HttpsUrl(k))) = 1
          /\ \E r \in CallsOf("resolve_ip", assets[k].domain) :
               \E h \in CallsOf("probe_url", HttpUrl(k)) :
                 \E s \in CallsOf("probe_url", HttpsUrl(k)) :
                   /\ r < h /\ h < s
                   /\ assets[k].ip = calls[r].ip
                   /\ assets[k].http = calls[h].result
                   /\ assets[k].https = calls[s].result
          /\ assets[k].http.present /\ assets[k].http.url = HttpUrl(k)
          /\ assets[k].https.present /\ assets[k].https.url = HttpsUrl(k)

\* an asset whose http probe failed and whose https probe answered 200, and
\* one the other way round
C2_Witness ==
    /\ self.probe_http
    /\ \E k, m \in Finished :
         /\ Truthy(assets[k].http.error)
         /\ assets[k].https.status_code = 200
         /\ assets[m].http.status_code = 200
         /\ Truthy(assets[m].https.error)

\* the list process hands to _check_live
Entered ==
    IF self.filters # <<>> THEN _filter(_tag(_dedupe(raw)), self.filters)
    ELSE _tag(_dedupe(raw))

\* C3: whatever the input list and however its hosts fail, _check_live lets
\* no exception out; it works on the assets it was given, in their order,
\* none added or dropped, and returns them each with live true or false
C3_BatchRunsToCompletion ==
    /\ pc # "raised"
    /\ i >= 1 =>
         /\ Len(assets) = Len(Entered)
         /\ \A k \in 1..Len(assets) :
              /\ assets[k].domain = Entered[k].domain
              /\ assets[k].source = Entered[k].source
              /\ assets[k].tags = Entered[k].tags
    /\ (pc = "done" /\ i >= 1) =>
         \A k \in 1..Len(assets) : assets[k].live \in {"True", "False"}

\* C4: the reference run (progress and verbose off) makes the calls the
\* first run made, in the same order, and ends the way the first run
\* ended, with the same assets
C4_ProgressAndVerboseArePure ==
    run = 2 =>
      /\ Len(calls) <= Len(first_result.calls)
      /\ calls = Take(first_result.calls, Len(calls))
      /\ pc \in {"done", "raised"} =>
           /\ pc = first_result.pc
           /\ assets = first_result.assets
           /\ calls = first_result.calls

\* the first run, with progress or verbose on, wrote to stderr, resolved and
\* probed; the reference run has returned
C4_Witness ==
    /\ run = 2
    /\ pc = "done"
    /\ first_result.wrote
    /\ \E c \in 1..Len(calls) : calls[c].op = "probe_url"
    /\ \E k \in 1..Len(assets) : assets[k].live = "False"

\* the progress callback's calls so far
ProgressEvents == SelectSeq(stderr, LAMBDA e : e.kind = "progress")

\* the statuses reported for the asset at position k, in order
RECURSIVE StatusesFrom(_, _)
StatusesFrom(k, e) ==
    IF e > Len(ProgressEvents) THEN <<>>
    ELSE (IF ProgressEvents[e].current = k THEN <<ProgressEvents[e].status>> ELSE <<>>)
           \o StatusesFrom(k, e + 1)

StatusesOf(k) == StatusesFrom(k, 1)

\* the statuses a finished asset is to have been reported with
ExpectedStatuses(k) ==
    IF assets[k].live = "False" THEN <<<<"r","e","s","o","l","v","i","n","g",".",".",".">>, <<"d","e","a","d">>>>
    ELSE IF ~self.probe_http
    THEN <<<<"r","e","s","o","l","v","i","n","g",".",".",".">>, <<"l","i","v","e"," ","(">> \o assets[k].ip[1] \o <<")">>>>
    ELSE <<<<"r","e","s","o","l","v","i","n","g",".",".",".">>, <<"p","r","o","b","i","n","g"," ","h","t","t","p",".",".",".">>,
           ProbeStatus(assets[k].http, assets[k].https)>>

\* C5: with progress enabled, every progress event carries a position in
\* 1..N, the constant total N and the domain at that position; positions
\* never decrease; an asset the loop has finished with was reported with
\* the resolving status, then (only if it resolved and probing is enabled)
\* the probing status, then one final status; the asset being worked on has
\* a prefix of that; later assets have none.  With progress disabled the
\* callback is not invoked
C5_ProgressEventsInOrder ==
    /\ ~self.show_progress => ProgressEvents = <<>>
    /\ \A e \in 1..Len(ProgressEvents) :
         /\ ProgressEvents[e].current \in 1..Len(assets)
         /\ ProgressEvents[e].total = Len(assets)
         /\ ProgressEvents[e].domain = assets[ProgressEvents[e].current].domain
         /\ e > 1 => ProgressEvents[e - 1].current <= ProgressEvents[e].current
    /\ (self.show_progress /\ i >= 1) =>
         \A k \in 1..Len(assets) :
           IF k \in Finished THEN StatusesOf(k) = ExpectedStatuses(k)
           ELSE IF k = i
           THEN StatusesOf(k) \in
                  {<<>>, <<<<"r","e","s","o","l","v","i","n","g",".",".",".">>>>, <<<<"r","e","s","o","l","v","i","n","g",".",".",".">>, <<"p","r","o","b","i","n","g"," ","h","t","t","p",".",".",".">>>>}
                /\ (stage \in {"http", "https"}) =
                     (StatusesOf(k) = <<<<"r","e","s","o","l","v","i","n","g",".",".",".">>, <<"p","r","o","b","i","n","g"," ","h","t","t","p",".",".",".">>>>)
           ELSE StatusesOf(k) = <<>>

\* a finished run that reported a dead asset with two events and a probed
\* one with three
C5_Witness ==
    /\ self.show_progress
    /\ pc = "done"
    /\ \E k, m \in Finished :
         /\ StatusesOf(k) = <<<<"r","e","s","o","l","v","i","n","g",".",".",".">>, <<"d","e","a","d">>>>
         /\ Len(StatusesOf(m)) = 3
         /\ StatusesOf(m)[3] = <<"h","t","t","p","s",":","2","0","0"," ","[","A","p","a","c","h","e","]"," ","h","t","t","p",":","c","o","n","n","e","c","t","i","o","n","_","r","e","f","u","s","e","d">>

\* the summary events so far
Summaries == SelectSeq(stderr, LAMBDA e : e.kind = "complete")

\* C6: there is never more than one summary event and none while the loop
\* runs or with progress disabled; when _check_live has returned with
\* progress enabled there is exactly one, it is the last event, and it
\* reports the number of assets, of resolved ones and of failed ones, which
\* add up; during the loop live_count + dead_count is the number of assets
\* whose resolution has completed
C6_OneSummaryWithTrueCounts ==
    /\ Len(Summaries) <= 1
    /\ ~self.show_progress => Summaries = <<>>
    /\ pc = "checking" =>
         /\ Summaries = <<>>
         /\ live_count + dead_count = Cardinality(Resolved)
    /\ (self.show_progress /\ pc = "done" /\ i >= 1) =>
         /\ Len(Summaries) = 1
         /\ stderr[Len(stderr)] = Summaries[1]
         /\ Summaries[1].total = Len(assets)
         /\ Summaries[1].live = Cardinality({k \in 1..Len(assets) : assets[k].live = "True"})
         /\ Summaries[1].dead = Cardinality({k \in 1..Len(assets) : assets[k].live = "False"})
         /\ Summaries[1].live + Summaries[1].dead = Summaries[1].total

\* a summary reporting one live and one dead asset out of two
C6_Witness ==
    /\ self.show_progress
    /\ pc = "done"
    /\ Len(Summaries) = 1
    /\ Summaries[1].total = 2
    /\ Summaries[1].live = 1
    /\ Summaries[1].dead = 1

(***************************************************************************)
(* Claims about the classifier, checked under SpecClassify.                *)
(***************************************************************************)
\* position k of list holds the first asset with its domain
IsFirstOccurrence(list, k) ==
    \A j \in 1..(k - 1) : list[j].domain # list[k].domain

FirstOccurrences(list) == {k \in 1..Len(list) : IsFirstOccurrence(list, k)}

\* C7: the output of dedupe has no two assets with equal domain, holds exactly
\* the first occurrence of each distinct domain of the input, and lists them
\* in the order in which they are first seen in the input.
C7_DedupeKeepsFirstOccurrences ==
    pc = "deduped" =>
        /\ \A j, k \in 1..Len(assets) : j # k => assets[j].domain # assets[k].domain
        /\ Len(assets) = Cardinality(FirstOccurrences(raw))
        /\ \E f \in [1..Len(assets) -> FirstOccurrences(raw)] :
              /\ \A j, k \in 1..Len(assets) : j < k => f[j] < f[k]
              /\ \A j \in 1..Len(assets) : assets[j] = raw[f[j]]

\* dedupe has dropped a later asset that has the domain of an earlier one
\* and differs from it
C7_Witness ==
    /\ pc = "deduped"
    /\ Len(assets) >= 1
    /\ \E j, k \in 1..Len(raw) :
          j < k /\ raw[j].domain = raw[k].domain /\ raw[j] # raw[k]

\* p is one of the pieces of d between the separators "." and "-"
IsSeparator(c) == c = "." \/ c = "-"

HasComponent(d, p) ==
    \E a \in 1..(Len(d) + 1) :
        /\ OccursAt(d, p, a)
        /\ \A k \in 1..Len(p) : ~IsSeparator(p[k])
        /\ a = 1 \/ IsSeparator(d[a - 1])
        /\ a + Len(p) - 1 = Len(d) \/ IsSeparator(d[a + Len(p)])

ContainsFalsePositive(d) ==
    \E fp \in FALSE_POSITIVES : \E k \in 1..Len(d) : OccursAt(d, fp, k)

ExampleRun ==
    /\ raw \in {ExampleInput, FoldedExampleInput}
    /\ self.filters = <<<<"d","e","v">>>>
    /\ pc = "done"

\* C9 as stated: the example yields exactly the assets a.mil and dev.a.mil,
\* with tags [dev] on dev.a.mil.
C9_Original ==
    ExampleRun =>
        /\ {assets[k].domain : k \in 1..Len(assets)} = {<<"a",".","m","i","l">>, <<"d","e","v",".","a",".","m","i","l">>}
        /\ \A k \in 1..Len(assets) :
              assets[k].domain = <<"d","e","v",".","a",".","m","i","l">> => assets[k].tags = <<<<"d","e","v">>>>

\* C9 (amended): the example yields exactly one asset, dev.a.mil with tags
\* [dev]; a.mil is dropped by the filter with developer.a.mil, and dedupe
\* folds A.MIL into a.mil when the names were lower-cased at ingestion.
C9_ExampleYieldsDevOnly ==
    /\ ExampleRun =>
          /\ Len(assets) = 1
          /\ assets[1].domain = <<"d","e","v",".","a",".","m","i","l">>
          /\ assets[1].tags = <<<<"d","e","v">>>>
    /\ (pc = "deduped" /\ raw = FoldedExampleInput) =>
          [k \in 1..Len(assets) |-> assets[k].domain]
            = <<<<"a",".","m","i","l">>, <<"d","e","v",".","a",".","m","i","l">>, <<"d","e","v","e","l","o","p","e","r",".","a",".","m","i","l">>>>

\* the example has been processed to the end
C9_Witness == ExampleRun /\ raw = FoldedExampleInput /\ Len(assets) = 1

(***************************************************************************)
(* Claims about probe_url, checked under SpecProbe.                        *)
(***************************************************************************)
\* the call has ended, by returning or by raising
ProbeEnded == p_pc \in {"returned", "raised"}

\* requests.get failed to reach the host
HostUnreachable ==
    /\ p_outcome.kind = "raise"
    /\ IsInstance(p_outcome.exc.cls, "ConnectionError")

ProbeFailed == p_pc = "returned" /\ p_exc # NoExc

\* the error categories
PlainCategories ==
    {<<"t","i","m","e","o","u","t">>, <<"d","n","s","_","f","a","i","l","e","d">>, <<"c","o","n","n","e","c","t","i","o","n","_","r","e","f","u","s","e","d">>, <<"n","e","t","w","o","r","k","_","u","n","r","e","a","c","h","a","b","l","e">>}

\* error is prefix followed by at most 100 characters of the exception's text
IsDetailed(error, prefix, msg) ==
    /\ StartsWith(error, prefix)
    /\ Len(error) <= Len(prefix) + 100
    /\ Drop(error, Len(prefix)) = Take(msg, 100)

\* the failure classes: what went wrong, by the exception's class and text
IsTimeoutFailure(exc) == IsInstance(exc.cls, "Timeout")

IsSslFailure(exc) == IsInstance(exc.cls, "SSLError")

IsPlainConnectionFailure(exc) ==
    /\ IsInstance(exc.cls, "ConnectionError")
    /\ ~IsTimeoutFailure(exc)
    /\ ~IsSslFailure(exc)

IsNameFailure(exc) ==
    IsPlainConnectionFailure(exc) /\ Contains(exc.msg, <<"N","a","m","e"," ","o","r"," ","s","e","r","v","i","c","e"," ","n","o","t"," ","k","n","o","w","n">>)

IsRefusal(exc) ==
    /\ IsPlainConnectionFailure(exc)
    /\ ~IsNameFailure(exc)
    /\ Contains(exc.msg, <<"C","o","n","n","e","c","t","i","o","n"," ","r","e","f","u","s","e","d">>)

IsNetworkUnreachable(exc) ==
    /\ IsPlainConnectionFailure(exc)
    /\ ~IsNameFailure(exc)
    /\ ~IsRefusal(exc)
    /\ Contains(exc.msg, <<"N","e","t","w","o","r","k"," ","i","s"," ","u","n","r","e","a","c","h","a","b","l","e">>)

\* C11: the error of a failed probe is one of timeout, dns_failed,
\* connection_refused, network_unreachable, "ssl_error: " + detail and
\* "unknown: " + detail (detail at most 100 characters), and it is the one
\* of the failure's class: timeout for a request timeout, dns_failed for a
\* name-resolution failure, connection_refused for a refused connection,
\* network_unreachable for an unreachable network, "ssl_error: ..." for a
\* TLS/SSL failure, "unknown: ..." for any other failure
C11_ErrorMatchesFailureClass ==
    ProbeFailed =>
      LET error == p_result.error[1]
      IN  /\ p_result.error # Absent
          /\ \/ error \in PlainCategories
             \/ IsDetailed(error, <<"s","s","l","_","e","r","r","o","r",":"," ">>, p_exc.msg)
             \/ IsDetailed(error, <<"u","n","k","n","o","w","n",":"," ">>, p_exc.msg)
          /\ IF IsTimeoutFailure(p_exc) THEN error = <<"t","i","m","e","o","u","t">>
             ELSE IF IsSslFailure(p_exc) THEN IsDetailed(error, <<"s","s","l","_","e","r","r","o","r",":"," ">>, p_exc.msg)
             ELSE IF IsNameFailure(p_exc) THEN error = <<"d","n","s","_","f","a","i","l","e","d">>
             ELSE IF IsRefusal(p_exc) THEN error = <<"c","o","n","n","e","c","t","i","o","n","_","r","e","f","u","s","e","d">>
             ELSE IF IsNetworkUnreachable(p_exc) THEN error = <<"n","e","t","w","o","r","k","_","u","n","r","e","a","c","h","a","b","l","e">>
             ELSE IsDetailed(error, <<"u","n","k","n","o","w","n",":"," ">>, p_exc.msg)

\* a TLS/SSL failure has been given the category of a refused connection
C11_SslFailureCalledRefused ==
    /\ ProbeFailed
    /\ p_exc.cls = "SSLError"
    /\ p_result.error = Some(<<"c","o","n","n","e","c","t","i","o","n","_","r","e","f","u","s","e","d">>)

(***************************************************************************)
(* Claims about CrtshSource, checked under SpecFetch and FairSpecFetch.    *)
(***************************************************************************)
\* the positions of the timeline holding a request / a sleep
Gets == {k \in 1..Len(timeline) : timeline[k].op = "get"}

Sleeps == {k \in 1..Len(timeline) : timeline[k].op = "sleep"}

\* _request_with_retry has ended, by returning a response or by raising
RetryEnded == f_pc \in {"returned", "fetched", "raised"}

\* C12: a failure of the upstream query (a network error, a timeout, an
\* error HTTP status) is answered by waiting retry_delay and asking again;
\* an error is raised only once max_retries requests have been made, and a
\* response with an error status is never returned as the result
C12_FailuresRetriedUntilExhausted ==
    /\ f_pc = "raised" => Cardinality(Gets) = max_retries
    /\ f_pc \in {"returned", "fetched"} => ~RaisesForStatus(response)
    /\ \A k \in Sleeps : timeline[k].seconds = retry_delay

\* a network error on the first request has been let out at once
C12_FirstFailureSurfaced ==
    /\ f_pc = "raised"
    /\ f_exc.cls = "ConnectionError"
    /\ timeline = <<Requested>>

\* a state of C16: at most max_retries requests and max_retries - 1 sleeps,
\* each sleep of retry_delay and standing between two requests (the second
\* still to come while the loop runs), none after the last request
RetryBounds ==
    /\ Cardinality(Gets) <= max_retries
    /\ Cardinality(Sleeps) <= max_retries - 1
    /\ \A k \in Sleeps :
         /\ timeline[k].seconds = retry_delay
         /\ k > 1 /\ timeline[k - 1].op = "get"
         /\ k < Len(timeline) => timeline[k + 1].op = "get"
         /\ k = Len(timeline) => f_pc = "loop" /\ attempt < max_retries
    /\ RetryEnded => timeline # <<>> /\ timeline[Len(timeline)].op = "get"

\* C16: whatever the upstream answers, _request_with_retry ends, by
\* returning or raising, within max_retries requests and max_retries - 1
\* sleeps of retry_delay; a sleep stands only between two requests, never
\* after the last; once it has ended no request is issued
C16_RetryEndsWithinBounds ==
    /\ []RetryBounds
    /\ [][RetryEnded => timeline' = timeline]_vars
    /\ <>RetryEnded

\* all max_retries requests were made, with a sleep between each two, and
\* the retries are exhausted
C16_Witness ==
    /\ f_pc = "raised"
    /\ f_exc.cls = "RuntimeError"
    /\ Cardinality(Gets) = max_retries
    /\ Cardinality(Sleeps) = max_retries - 1

\* C13: every asset fetch returns has a domain that is lower-case, not
\* empty, without "@", not beginning with the wildcard prefix "*.", and
\* borne by no other returned asset, whatever the name_value entries hold
C13_FetchedDomainsNormalised ==
    f_pc = "fetched" =>
      \A k \in 1..Len(raw) :
        /\ raw[k].domain = Lower(raw[k].domain)
        /\ raw[k].domain # <<>>
        /\ ~Contains(raw[k].domain, <<"@">>)
        /\ ~StartsWith(raw[k].domain, <<"*",".">>)
        /\ \A m \in 1..Len(raw) : raw[m].domain = raw[k].domain => m = k

\* the entry "*." has become an asset with an empty domain
C13_EmptyDomainFetched ==
    /\ f_pc = "fetched"
    /\ data = <<<<"*",".">>>>
    /\ Len(raw) = 1
    /\ raw[1].domain = <<>>

(***************************************************************************)
(* Claims about CsvOutput.write, checked under SpecCsv.                    *)
(***************************************************************************)
\* the https probe's value when it has one, otherwise the http probe's,
\* otherwise nothing
Preferred(https_value, http_value) ==
    IF https_value # <<>> THEN https_value ELSE http_value

\* C14: in every row written, server is the https probe's server when it
\* has one and otherwise the http probe's; likewise technologies
\* (comma-joined) and title
C14_CsvPrefersHttpsThenHttp ==
    \A k \in 1..Len(rows) :
      LET asset == assets[k]
      IN  /\ rows[k].server = Preferred(Cell(asset.https.server), Cell(asset.http.server))
          /\ rows[k].technologies =
               Preferred(Join(asset.https.technologies, <<",">>),
                         Join(asset.http.technologies, <<",">>))
          /\ rows[k].title = Preferred(Cell(asset.https.title), Cell(asset.http.title))

\* the https probe failed, the http probe found a server, and the row's
\* server is empty
C14_HttpServerNotWritten ==
    \E k \in 1..Len(rows) :
      /\ Truthy(assets[k].https.error)
      /\ assets[k].http.server = Some(<<"A","p","a","c","h","e","/","2",".","4",".","4","1">>)
      /\ rows[k].server = <<>>

(***************************************************************************)
(* Claims about _detect_technologies, checked under SpecProbe.             *)
(***************************************************************************)
\* a response has been turned into a result
Detected == p_pc = "returned" /\ p_outcome.kind = "response" /\ p_exc = NoExc

\* the value of the response header called name, whatever the case of its
\* name; empty when there is none
HeaderValue(name) ==
    LET hs == p_outcome.response.headers
    IN  IF \E n \in DOMAIN hs : Lower(n) = name
        THEN hs[CHOOSE n \in DOMAIN hs : Lower(n) = name]
        ELSE <<>>

\* the version a fingerprint captures in a header value: empty when its
\* group is empty or it has none
CapturedVersion(fp, value) ==
    LET match == ReSearch(fp.re, Lower(value))
    IN  IF match.groups # <<>> THEN match.groups[1] ELSE <<>>

\* the header fingerprints with a version placeholder that match the
\* response's headers: <<e, k>> for pattern k of entry e of the table
VersionedMatches ==
    {ek \in UNION {{<<e, k>> : k \in 1..Len(HEADER_FINGERPRINTS[e].patterns)} :
                     e \in 1..Len(HEADER_FINGERPRINTS)} :
       LET entry == HEADER_FINGERPRINTS[ek[1]]
           fp == entry.patterns[ek[2]]
       IN  /\ Contains(fp.name, <<"{","0","}">>)
           /\ HeaderValue(entry.header) # <<>>
           /\ ReSearch(fp.re, Lower(HeaderValue(entry.header))).matched}

\* the labels of the result
Labels == {p_result.technologies[n] : n \in 1..Len(p_result.technologies)}

\* C15: the label list is sorted and without duplicates; for a matching
\* header signature whose template has a version placeholder the list holds
\* the template with the captured version substituted when one is captured,
\* and the template without the placeholder (the bare label, not the
\* template with an empty version) when none is
C15_VersionSubstitutedOrOmitted ==
    Detected =>
      /\ \A n \in 1..(Len(p_result.technologies) - 1) :
           StrLess(p_result.technologies[n], p_result.technologies[n + 1])
      /\ \A ek \in VersionedMatches :
           LET entry == HEADER_FINGERPRINTS[ek[1]]
               fp == entry.patterns[ek[2]]
               version == CapturedVersion(fp, HeaderValue(entry.header))
           IN  IF version # <<>>
               THEN Format(fp.name, version) \in Labels
               ELSE /\ Replace(fp.name, <<"/","{","0","}">>, <<>>) \in Labels
                    /\ Format(fp.name, <<>>) \notin Labels

\* "X-Powered-By: PHP" has been given the label "PHP/"
C15_EmptyVersionKept ==
    /\ Detected
    /\ HeaderValue(<<"x","-","p","o","w","e","r","e","d","-","b","y">>) = <<"P","H","P">>
    /\ p_result.technologies = <<<<"P","H","P","/">>>>

=============================================================================
